---- MODULE Spec2Model ----
(***************************************************************************)
(* Verification model of the tskv table schema (common/models/schema.rs):  *)
(* TskvTableSchema with its columns vector, its name -> index HashMap,     *)
(* next_column_id and schema_id, and the three mutators add_column,        *)
(* drop_column and change_column; and of the storage engine facade         *)
(* (tskv/kvcore.rs): the write path through the WAL writer task into the   *)
(* ts-family caches, recovery on open, read, delete_series and flush.      *)
(*                                                                         *)
(* Specifications:                                                         *)
(*   Spec       the table schema under its three mutators                  *)
(*   SpecWrite  concurrent writers, the WAL job, crash and open            *)
(*   SpecWriteFair  SpecWrite with the scheduler's fairness                 *)
(*   SpecRead   writers, the WAL and flush jobs, one caller of read        *)
(*   SpecDelete writers, the WAL and flush jobs, one delete_series         *)
(*   SpecFn     calls of the free functions: precision and duration        *)
(*              conversion, ResourceInfo::new, matches_type,               *)
(*              encoding_valid, make_owner / split_owner, unite_id         *)
(*   SpecFamilies  insert_cache called for several databases               *)
(*   SpecJobs   insert_cache, the flush, compaction and summary tasks,     *)
(*              and the drop of the engine handle                          *)
(***************************************************************************)
EXTENDS Integers, Sequences, FiniteSets, TLC

\* ---------------------------------------------------------------- bounds
\* largest column id a caller puts into a TableColumn it passes in
MaxColumnId == 1
\* longest columns vector explored
MaxColumns == 3
\* add_column is not explored once next_column_id has reached this value
MaxNextColumnId == 4

\* ------------------------------------------------------- TableColumn data
TIME_FIELD_NAME == "time"

\* column names the callers use
ColumnNames == {TIME_FIELD_NAME, "a", "b"}

\* enum ColumnType { Tag, Time(unit), Field(value_type) }
ColumnTypes == {"Tag", "Time", "Field"}

\* struct TableColumn { id, name, column_type, encoding }
TableColumn(id, name, column_type, encoding) ==
    [id |-> id, name |-> name, column_type |-> column_type, encoding |-> encoding]

\* TableColumn::new_time_column(id, unit)
new_time_column(id) == TableColumn(id, TIME_FIELD_NAME, "Time", "Default")

\* column types of the TableColumn values handed to the mutators (the time
\* column is created with the table; later calls bring field columns)
InputColumnTypes == {"Field"}

\* the TableColumn values handed to add_column / change_column
InputColumns ==
    { TableColumn(id, n, t, "Default") :
        id \in 0..MaxColumnId, n \in ColumnNames, t \in InputColumnTypes }

\* ColumnType::is_time
is_time(col) == col.column_type = "Time"

\* ------------------------------------------------------------------ state
VARIABLES
    columns,         \* Vec<TableColumn>; columns[i + 1] is the Rust slot i
    columns_index,   \* HashMap<String, usize>: column name -> 0-based slot
    next_column_id,  \* ColumnId
    schema_id,       \* SchemaId
    last_op          \* the call that produced this state: its name, its
                     \* column-name argument and whether the map lookup hit

schema_vars == <<columns, columns_index, next_column_id, schema_id, last_op>>

\* the storage engine (TsKv) and its callers
VARIABLES
    engine,          \* "running", or "recovering" while open() replays the WAL
    crashes,         \* number of process crashes so far
    recovered_seq,   \* highest WAL sequence found in the log by the last open()
    replay_pos,      \* next WAL entry recover_wal hands to write_from_wal
    wpc,             \* per caller of write: how far its write future has got
    wres,            \* per caller of write: the Result its write returned
    wseq,            \* per caller of write: the sequence received from the WAL
    wal_chan,        \* queued WalTask::Write, by sending caller
    wal_reply,       \* per caller: state of the oneshot the WAL job replies on
    wal_alive,       \* the spawned WAL job still holds its receiver
    wal_log,         \* entries appended to the WAL (durable)
    wal_seq,         \* last sequence the WAL manager assigned
    index,           \* DbIndexSet: per database the series keys, sid = position
    version_set,     \* VersionSet: database name -> ts-family
    flush_chan       \* queued flush requests

engine_vars == <<engine, crashes, recovered_seq, replay_pos>>
writer_vars == <<wpc, wres, wseq>>
wal_vars == <<wal_chan, wal_reply, wal_alive, wal_log, wal_seq>>
store_vars == <<index, version_set, flush_chan>>
kv_vars == <<engine_vars, writer_vars, wal_vars, store_vars>>

\* files on disk besides the TSM files, the flush job, and the callers of read
\* and delete_series
VARIABLES
    tombstones,      \* tombstone records flushed to disk
    fjob,            \* the flush request the flush job is working on, if any
    reader,          \* the caller of read: its request, position and result
    deleter,         \* the caller of delete_series: request, position, snapshot
    del_call         \* what the store held when delete_series was called

rd_vars == <<tombstones, fjob, reader, deleter, del_call>>

\* a caller of the free functions and constructors of the two files
VARIABLES
    call,            \* the last call: the function and its arguments
    ret              \* what the call returned

fn_vars == <<call, ret>>

\* the engine handle, the flush, compaction and summary tasks spawned by open,
\* their channels, and the read lock of the version set
VARIABLES
    handle,          \* "open", or "dropped" once the TsKv and its senders are gone
    flush_alive,     \* the flush task still runs its loop
    compact_chan,    \* queued compaction triggers: the ts-family, by database
    compact_alive,   \* the compaction task still runs its loop
    cjob,            \* the compaction the compaction task is running, if any
    summary_chan,    \* queued SummaryTask values: one version edit each
    summary_alive,   \* the summary task still runs its loop
    sjob,            \* the SummaryTask being applied, if any
    vs_readers,      \* tasks that hold the read lock of the version set
    job_log          \* errors the tasks have logged, oldest first

job_vars == <<handle, flush_alive, compact_chan, compact_alive, cjob,
              summary_chan, summary_alive, sjob, vs_readers, job_log>>

vars == <<schema_vars, kv_vars, rd_vars, fn_vars, job_vars>>

\* ------------------------------------------------------------- helpers
\* a call of a schema method on column name `name`; found: the name was a key
\* of columns_index when the call started
Call(op, name, found) == [op |-> op, name |-> name, found |-> found]

SetMax(S) == CHOOSE x \in S : \A y \in S : y <= x

\* columns.iter().enumerate().map(|(idx, e)| (e.name.clone(), idx)).collect():
\* a later column of the same name overwrites the earlier entry
BuildIndex(cols) ==
    [n \in {cols[i].name : i \in 1..Len(cols)} |->
        SetMax({i - 1 : i \in {j \in 1..Len(cols) : cols[j].name = n}})]

\* Vec::remove(idx): drop the 0-based slot idx, shifting the rest left
VecRemove(cols, idx) ==
    [i \in 1..(Len(cols) - 1) |-> IF i <= idx THEN cols[i] ELSE cols[i + 1]]

\* columns[idx] = col
VecSet(cols, idx, col) == [cols EXCEPT ![idx + 1] = col]

\* HashMap::remove(key)
MapRemove(m, key) == [k \in (DOMAIN m) \ {key} |-> m[k]]

\* HashMap::insert(key, value)
MapInsert(m, key, value) ==
    [k \in (DOMAIN m) \cup {key} |-> IF k = key THEN value ELSE m[k]]

\* ------------------------------------------------------------ accessors
\* contains_column(name)
contains_column(name) == name \in DOMAIN columns_index

\* column_index(name): Some(idx) is modelled as idx, None as -1
column_index(name) == IF name \in DOMAIN columns_index THEN columns_index[name] ELSE -1

\* ========================================================================
\* Storage engine: data
\* ========================================================================

\* ---------------------------------------------------------------- bounds
\* number of concurrent callers of write, each writing one batch
NumWriters == 2
\* crashes explored
MaxCrashes == 1
\* cells an active memcache holds before put_points freezes it
MaxMemCells == 2

Writers == 1..NumWriters

\* databases the callers write to
DbNames == {"db1"}

\* the database named in a caller's batch
DbOf(w) == "db1"

\* the one field column of the written points
FieldColumn == 1

\* a point of a batch: the series key (table and tags) and the timestamp
Point(key, ts) == [key |-> key, ts |-> ts]

\* the batch (WritePointsRpcRequest.points) caller w writes; every cell of it
\* carries the value w
BatchOf(w) ==
    IF w % 2 = 1
      THEN <<Point("k1", 2), Point("k2", 2)>>
      ELSE <<Point("k1", 1), Point("k2", 1)>>

\* index::utils::unite_id(column_id, series_id) -> FieldId
\* the column id goes above the low half of the field id, the series id into
\* the low half; widths are scaled down by 8: column ids (u32) have 4 bits,
\* series ids and field ids (u64) have 8
IdSpace == 16
ColumnIdSpace == 16
SeriesIdSpace == 256
FieldIdSpace == 256
unite_id(column_id, sid) == (column_id * IdSpace + sid) % FieldIdSpace

\* ------------------------------------------------------- series index
\* position of key in the key list, 0 when absent
SidOf(keys, key) ==
    IF \E i \in 1..Len(keys) : keys[i] = key
      THEN CHOOSE i \in 1..Len(keys) : keys[i] = key
      ELSE 0

\* add_series_if_not_exists: an existing key keeps its id, a new key gets the
\* next id
add_series_if_not_exists(keys, key) ==
    IF SidOf(keys, key) # 0 THEN keys ELSE Append(keys, key)

\* the index after the loop of build_mem_points has handled points[1..n]
RECURSIVE IndexPoints(_, _, _)
IndexPoints(keys, points, n) ==
    IF n = 0 THEN keys
    ELSE add_series_if_not_exists(IndexPoints(keys, points, n - 1), points[n].key)

\* the Vec<InMemPoint> build_mem_points returns: series id and field id filled in
MemPoints(keys, points, val) ==
    [i \in 1..Len(points) |->
        [sid |-> SidOf(keys, points[i].key),
         fid |-> unite_id(FieldColumn, SidOf(keys, points[i].key)),
         ts  |-> points[i].ts,
         val |-> val]]

\* ------------------------------------------------------- ts-family caches
\* a cell of a MemEntry
Cell(fid, ts, seq, val) == [fid |-> fid, ts |-> ts, seq |-> seq, val |-> val]

\* version_set.add_tsfamily(tf_id, db, seq, file_id, opt, summary_task_sender)
NewTsFamily(tf_id) ==
    [tf_id |-> tf_id,
     mut |-> <<>>, delta_mut |-> <<>>,
     immut |-> <<>>, delta_immut |-> <<>>,
     files |-> {},
     sv |-> 0]

\* largest timestamp held by the files of levels >= 1
MaxLevelTs(tsf) ==
    LET tss == {c.ts : c \in UNION {f.cells : f \in {g \in tsf.files : g.level >= 1}}}
    IN IF tss = {} THEN 0 ELSE SetMax(tss)

\* a timestamp inside the active window of the ts-family goes to mut, a late
\* one to delta_mut
InActiveWindow(tsf, ts) == ts > MaxLevelTs(tsf)

\* a frozen memcache
Frozen(cells) == [cells |-> cells, flushed |-> FALSE]

\* freeze an active cache that reached its threshold: it moves to the
\* immutable list, a fresh active cache replaces it, a new superversion is made
FreezeFull(tsf) ==
    LET a == IF Len(tsf.mut) >= MaxMemCells
               THEN [tsf EXCEPT !.immut = Append(@, Frozen(tsf.mut)),
                                !.mut = <<>>, !.sv = @ + 1]
               ELSE tsf
    IN IF Len(a.delta_mut) >= MaxMemCells
         THEN [a EXCEPT !.delta_immut = Append(@, Frozen(a.delta_mut)),
                        !.delta_mut = <<>>, !.sv = @ + 1]
         ELSE a

\* tsf.put_points(seq, points, flush_task_sender)
put_points(tsf, seq, points) ==
    LET cells == [i \in 1..Len(points) |->
                    Cell(points[i].fid, points[i].ts, seq, points[i].val)]
        normal == SelectSeq(cells, LAMBDA c : InActiveWindow(tsf, c.ts))
        late == SelectSeq(cells, LAMBDA c : ~InActiveWindow(tsf, c.ts))
    IN FreezeFull([tsf EXCEPT !.mut = @ \o normal, !.delta_mut = @ \o late])

\* the flush requests put_points sends for the caches it froze
FlushReqs(db, old, new) ==
    [i \in 1..(Len(new.immut) - Len(old.immut)) |->
        [db |-> db, delta |-> FALSE, idx |-> Len(old.immut) + i]]
    \o
    [i \in 1..(Len(new.delta_immut) - Len(old.delta_immut)) |->
        [db |-> db, delta |-> TRUE, idx |-> Len(old.delta_immut) + i]]

\* the ts-family insert_cache works on: the one of that name, else a new one
\* made by add_tsfamily(0, db, ..)
TsFamilyFor(vs, db) == IF db \in DOMAIN vs THEN vs[db] ELSE NewTsFamily(0)

\* insert_cache(db, seq, points): the version set afterwards
insert_cache(vs, db, seq, points) ==
    MapInsert(vs, db, put_points(TsFamilyFor(vs, db), seq, points))

\* every cell held by the memcaches of a ts-family that read_point looks at
MemCells(tsf) ==
    LET Range(q) == {q[i] : i \in 1..Len(q)}
    IN Range(tsf.mut) \cup Range(tsf.delta_mut)
       \cup UNION {Range(m.cells) : m \in {x \in Range(tsf.immut) : ~x.flushed}}
       \cup UNION {Range(m.cells) : m \in {x \in Range(tsf.delta_immut) : ~x.flushed}}

\* ------------------------------------------------------------ kv Init
\* oneshot::channel(): nothing sent, both ends alive
NoReply == [st |-> "none", seq |-> 0]

KvInit ==
    /\ engine = "running"
    /\ crashes = 0
    /\ recovered_seq = 0
    /\ replay_pos = 1
    /\ wpc = [w \in Writers |-> "idle"]
    /\ wres = [w \in Writers |-> "none"]
    /\ wseq = [w \in Writers |-> 0]
    /\ wal_chan = <<>>
    /\ wal_reply = [w \in Writers |-> NoReply]
    /\ wal_alive = TRUE
    /\ wal_log = <<>>
    /\ wal_seq = 0
    /\ index = [db \in DbNames |-> <<>>]
    /\ version_set = <<>>
    /\ flush_chan = <<>>

\* no tombstone on disk, the flush job idle, nobody reading or deleting
NoRead == [pc |-> "idle", req |-> <<>>, pos |-> 0, ans |-> <<>>, svs |-> <<>>]
NoDelete == [pc |-> "idle", req |-> <<>>, infos |-> <<>>, pos |-> 0, snap |-> {}]
NoDelCall == [cells |-> {}, files |-> {}, quiet |-> FALSE]

\* nothing was called yet
NoCall == [fn |-> "none"]

FnInit ==
    /\ call = NoCall
    /\ ret = <<>>

\* open has spawned the tasks; their channels are empty
JobInit ==
    /\ handle = "open"
    /\ flush_alive = TRUE
    /\ compact_chan = <<>>
    /\ compact_alive = TRUE
    /\ cjob = <<>>
    /\ summary_chan = <<>>
    /\ summary_alive = TRUE
    /\ sjob = <<>>
    /\ vs_readers = {}
    /\ job_log = <<>>

RdInit ==
    /\ tombstones = {}
    /\ fjob = <<>>
    /\ reader = NoRead
    /\ deleter = NoDelete
    /\ del_call = NoDelCall

\* ------------------------------------------------------------------ Init
\* TskvTableSchema::new(tenant, db, name, columns), as new_test() calls it
\* with vec![new_time_column(0, unit)], optionally followed by a tag column
InitialColumns ==
    { <<new_time_column(0)>>,
      <<new_time_column(0), TableColumn(1, "a", "Tag", "Default")>> }

new(cols) ==
    /\ columns = cols
    /\ columns_index = BuildIndex(cols)
    /\ next_column_id = Len(cols)
    /\ schema_id = 0

SchemaInit ==
    /\ \E cols \in InitialColumns : new(cols)
    /\ last_op = Call("new", TIME_FIELD_NAME, FALSE)

Init ==
    /\ SchemaInit
    /\ KvInit
    /\ RdInit
    /\ FnInit
    /\ JobInit

\* --------------------------------------------------------------- actions
\* add_column(col): entry(col.name).or_insert_with(push); next_column_id += 1
add_column(col) ==
    /\ next_column_id < MaxNextColumnId
    /\ (col.name \in DOMAIN columns_index \/ Len(columns) < MaxColumns)
    /\ IF col.name \in DOMAIN columns_index
         THEN UNCHANGED <<columns, columns_index>>
         ELSE /\ columns' = Append(columns, col)
              /\ columns_index' = MapInsert(columns_index, col.name, Len(columns))
    /\ next_column_id' = next_column_id + 1
    /\ UNCHANGED schema_id
    /\ last_op' = Call("add_column", col.name, col.name \in DOMAIN columns_index)

\* drop_column that removes the key instead of rebuilding the map
drop_column_keeps_indices(col_name) ==
    /\ IF col_name \in DOMAIN columns_index
         THEN /\ columns' = VecRemove(columns, columns_index[col_name])
              /\ columns_index' = MapRemove(columns_index, col_name)
         ELSE UNCHANGED <<columns, columns_index>>
    /\ UNCHANGED <<next_column_id, schema_id>>
    /\ last_op' = Call("drop_column", col_name, col_name \in DOMAIN columns_index)

\* drop_column(col_name): remove the mapped slot if any, then rebuild the map
drop_column(col_name) ==
    /\ LET removed == IF col_name \in DOMAIN columns_index
                        THEN VecRemove(columns, columns_index[col_name])
                        ELSE columns
       IN /\ columns' = removed
          /\ columns_index' = BuildIndex(removed)
    /\ UNCHANGED <<next_column_id, schema_id>>
    /\ last_op' = Call("drop_column", col_name, col_name \in DOMAIN columns_index)

\* change_column that forgets columns_index.remove(col_name)
change_column_keeps_old_name(col_name, new_column) ==
    /\ IF col_name \notin DOMAIN columns_index
         THEN UNCHANGED <<columns, columns_index>>
         ELSE LET id == columns_index[col_name]
              IN /\ columns_index' = MapInsert(columns_index, new_column.name, id)
                 /\ columns' = VecSet(columns, id, new_column)
    /\ UNCHANGED <<next_column_id, schema_id>>
    /\ last_op' = Call("change_column", col_name, col_name \in DOMAIN columns_index)

\* change_column(col_name, new_column)
change_column(col_name, new_column) ==
    /\ IF col_name \notin DOMAIN columns_index
         THEN UNCHANGED <<columns, columns_index>>
         ELSE LET id == columns_index[col_name]
              IN /\ columns_index' =
                        MapInsert(MapRemove(columns_index, col_name), new_column.name, id)
                 /\ columns' = VecSet(columns, id, new_column)
    /\ UNCHANGED <<next_column_id, schema_id>>
    /\ last_op' = Call("change_column", col_name, col_name \in DOMAIN columns_index)

AddColumn ==
    /\ \E col \in InputColumns : add_column(col)
    /\ UNCHANGED <<kv_vars, rd_vars, fn_vars, job_vars>>
DropColumn ==
    /\ \E n \in ColumnNames : drop_column(n)
    /\ UNCHANGED <<kv_vars, rd_vars, fn_vars, job_vars>>
ChangeColumn ==
    /\ \E n \in ColumnNames : \E col \in InputColumns : change_column(n, col)
    /\ UNCHANGED <<kv_vars, rd_vars, fn_vars, job_vars>>

Next == AddColumn \/ DropColumn \/ ChangeColumn

Spec == Init /\ [][Next]_vars

TypeOK ==
    /\ Len(columns) <= MaxColumns
    /\ next_column_id \in 0..MaxNextColumnId
    /\ \A i \in 1..Len(columns) : columns[i].id \in 0..MaxColumnId /\ columns[i].name \in ColumnNames

\* ========================================================================
\* Properties of the table schema
\* ========================================================================

\* some column of cols is named n
HasColumn(cols, n) == \E i \in 1..Len(cols) : cols[i].name = n

\* the 0-based slots of cols that hold a Time column
TimeSlots(cols) == {i \in 0..(Len(cols) - 1) : is_time(cols[i + 1])}

\* C1: every structural change (add_column of a new name, drop_column of a
\* present name, change_column of a present name) leaves schema_id strictly
\* greater than it was before the call.
C1_SchemaIdStrictlyIncreases ==
    [][ /\ \A c \in InputColumns :
             (add_column(c) /\ ~HasColumn(columns, c.name)) => schema_id' > schema_id
        /\ \A n \in ColumnNames :
             (drop_column(n) /\ HasColumn(columns, n)) => schema_id' > schema_id
        /\ \A n \in ColumnNames : \A c \in InputColumns :
             (change_column(n, c) /\ HasColumn(columns, n)) => schema_id' > schema_id
      ]_vars

\* C2: add_column(c) with c.name already a column leaves next_column_id as it
\* was.
C2_AddExistingKeepsNextColumnId ==
    [][ \A c \in InputColumns :
          (add_column(c) /\ HasColumn(columns, c.name)) => next_column_id' = next_column_id
      ]_vars

\* C3: add_column(c) with a column named c.name present leaves columns and the
\* name -> index map unchanged; with the name absent it appends c as the last
\* column, maps c.name to the last slot and keeps the slot of every other name.
C3_AddColumnFrame ==
    [][ \A c \in InputColumns :
          add_column(c) =>
            IF HasColumn(columns, c.name)
              THEN /\ columns' = columns
                   /\ columns_index' = columns_index
              ELSE /\ columns' = Append(columns, c)
                   /\ c.name \in DOMAIN columns_index'
                   /\ columns_index'[c.name] = Len(columns') - 1
                   /\ \A n \in DOMAIN columns_index :
                        n \in DOMAIN columns_index' /\ columns_index'[n] = columns_index[n]
      ]_vars

\* C4: the name -> index map has exactly one entry per column, and
\* map[n] = i exactly when columns[i].name = n.
C4_IndexConsistent ==
    /\ Cardinality(DOMAIN columns_index) = Len(columns)
    /\ \A n \in ColumnNames : \A i \in 0..(Len(columns) - 1) :
         (n \in DOMAIN columns_index /\ columns_index[n] = i) <=> columns[i + 1].name = n
    /\ \A n \in DOMAIN columns_index : columns_index[n] \in 0..(Len(columns) - 1)

\* C5: next_column_id is strictly greater than the id of every column.
C5_NextColumnIdAboveIds ==
    \A i \in 1..Len(columns) : columns[i].id < next_column_id

\* C6: column ids strictly increase with the position in columns (hence no two
\* columns share an id).
C6_ColumnIdsIncrease ==
    \A i, j \in 1..Len(columns) : i < j => columns[i].id < columns[j].id

\* C7: no operation lowers next_column_id, drop_column and change_column leave
\* it unchanged, and the id of a column that drop_column removes is below
\* next_column_id (so it stays below it in every later state).
C7_DroppedIdStaysBelowNext ==
    [][ /\ next_column_id' >= next_column_id
        /\ \A n \in ColumnNames :
             drop_column(n) =>
               /\ next_column_id' = next_column_id
               /\ n \in DOMAIN columns_index =>
                    columns[columns_index[n] + 1].id < next_column_id'
        /\ \A n \in ColumnNames : \A c \in InputColumns :
             change_column(n, c) => next_column_id' = next_column_id
      ]_vars

\* C8: the schema has exactly one Time column in every state.
C8_ExactlyOneTimeColumn == Cardinality(TimeSlots(columns)) = 1

\* C9: drop_column(name) with no column of that name changes nothing; with a
\* present name it removes exactly one column of that name and keeps the
\* remaining columns, with their ids, in their order.
C9_DropColumnEffect ==
    [][ \A n \in ColumnNames :
          drop_column(n) =>
            IF ~HasColumn(columns, n)
              THEN /\ columns' = columns
                   /\ columns_index' = columns_index
                   /\ next_column_id' = next_column_id
                   /\ schema_id' = schema_id
              ELSE \E k \in 0..(Len(columns) - 1) :
                     /\ columns[k + 1].name = n
                     /\ columns' = VecRemove(columns, k)
      ]_vars

\* C10: change_column(name, new_col) with name a key of the map keeps the number
\* of columns, puts new_col into the slot the name mapped to, leaves every
\* other slot alone, makes column_index(new_col.name) that slot and, when the
\* name changed, makes contains_column(name) false; with name not a key it
\* changes nothing.
C10_ChangeColumnInPlace ==
    [][ \A n \in ColumnNames : \A c \in InputColumns :
          change_column(n, c) =>
            IF contains_column(n)
              THEN LET slot == column_index(n)
                   IN /\ Len(columns') = Len(columns)
                      /\ columns'[slot + 1] = c
                      /\ \A i \in 1..Len(columns) : i # slot + 1 => columns'[i] = columns[i]
                      /\ column_index(c.name)' = slot
                      /\ c.name # n => ~contains_column(n)'
                      /\ next_column_id' = next_column_id
              ELSE /\ columns' = columns
                   /\ columns_index' = columns_index
                   /\ next_column_id' = next_column_id
                   /\ schema_id' = schema_id
      ]_vars

\* a change_column call renamed a column of a schema with several columns
C10_Witness ==
    /\ last_op.op = "change_column"
    /\ last_op.found
    /\ ~contains_column(last_op.name)
    /\ Len(columns) >= 2

\* ========================================================================
\* Storage engine: the write path, the WAL job, crash and open
\* ========================================================================

\* the ways build_mem_points ends: Ok, a decode error before the loop, or an
\* error at point k of the loop
BuildOutcomes(w) ==
    {[kind |-> "Ok", at |-> Len(BatchOf(w)) + 1],
     [kind |-> "InvalidFlatbuffer", at |-> 1],
     [kind |-> "CharacterSet", at |-> 1]}
    \cup {[kind |-> k, at |-> i] :
            k \in {"InvalidModel", "IndexErr"}, i \in 1..Len(BatchOf(w))}

DecodeErrors == {"InvalidFlatbuffer", "CharacterSet", "InvalidModel", "IndexErr"}
WalErrors == {"Send", "Receive", "WalErr"}

\* WriteBuild that sends the WAL task before it builds the points
WriteBuild_sends_first(w) ==
    /\ engine = "running"
    /\ wpc[w] = "idle"
    /\ \E out \in BuildOutcomes(w) :
         /\ index' = [index EXCEPT ![DbOf(w)] = IndexPoints(@, BatchOf(w), out.at - 1)]
         /\ IF ~wal_alive
              THEN /\ wpc' = [wpc EXCEPT ![w] = "failed"]
                   /\ wres' = [wres EXCEPT ![w] = "Send"]
                   /\ UNCHANGED wal_chan
              ELSE /\ wal_chan' = Append(wal_chan, w)
                   /\ IF out.kind # "Ok"
                        THEN /\ wpc' = [wpc EXCEPT ![w] = "failed"]
                             /\ wres' = [wres EXCEPT ![w] = out.kind]
                        ELSE /\ wpc' = [wpc EXCEPT ![w] = "waiting"]
                             /\ UNCHANGED wres
    /\ UNCHANGED <<wseq, wal_reply, wal_alive, wal_log, wal_seq, version_set, flush_chan>>
    /\ UNCHANGED <<engine_vars, schema_vars, rd_vars, fn_vars, job_vars>>

\* write, up to the first await on the WAL reply: build_mem_points, then
\* wal_sender.send(WalTask::Write {cb, points})
WriteBuild(w) ==
    /\ engine = "running"
    /\ wpc[w] = "idle"
    /\ \E out \in BuildOutcomes(w) :
         /\ index' = [index EXCEPT ![DbOf(w)] = IndexPoints(@, BatchOf(w), out.at - 1)]
         /\ IF out.kind # "Ok"
              THEN /\ wpc' = [wpc EXCEPT ![w] = "failed"]
                   /\ wres' = [wres EXCEPT ![w] = out.kind]
                   /\ UNCHANGED wal_chan
              ELSE IF wal_alive
                THEN /\ wal_chan' = Append(wal_chan, w)
                     /\ wpc' = [wpc EXCEPT ![w] = "waiting"]
                     /\ UNCHANGED wres
                ELSE /\ wpc' = [wpc EXCEPT ![w] = "failed"]
                     /\ wres' = [wres EXCEPT ![w] = "Send"]
                     /\ UNCHANGED wal_chan
    /\ UNCHANGED <<wseq, wal_reply, wal_alive, wal_log, wal_seq, version_set, flush_chan>>
    /\ UNCHANGED <<engine_vars, schema_vars, rd_vars, fn_vars, job_vars>>

\* wal_manager.write(WalEntryType::Write, points): Ok((seq, offset)) appends
\* an entry under the next sequence, Err appends nothing
WalManagerWrite(ok, w) ==
    IF ok
      THEN /\ wal_seq' = wal_seq + 1
           /\ wal_log' = Append(wal_log, [seq |-> wal_seq + 1, w |-> w])
      ELSE UNCHANGED <<wal_seq, wal_log>>

\* WalJobWrite that replies before the append has assigned the sequence
WalJobWrite_stale_seq ==
    /\ wal_alive
    /\ wal_chan # <<>>
    /\ LET w == Head(wal_chan)
       IN \E ok \in BOOLEAN :
            /\ WalManagerWrite(ok, w)
            /\ wal_reply' =
                 IF wpc[w] = "waiting"
                   THEN [wal_reply EXCEPT ![w] =
                           IF ok THEN [st |-> "ok", seq |-> wal_seq]
                                 ELSE [st |-> "err", seq |-> 0]]
                   ELSE wal_reply
    /\ wal_chan' = Tail(wal_chan)
    /\ UNCHANGED <<wal_alive, writer_vars, store_vars, engine_vars, schema_vars, rd_vars, fn_vars, job_vars>>

\* WalJobWrite that leaves its loop when the reply cannot be sent
WalJobWrite_stops_on_dropped_receiver ==
    /\ wal_alive
    /\ wal_chan # <<>>
    /\ LET w == Head(wal_chan)
       IN /\ \E ok \in BOOLEAN :
               /\ WalManagerWrite(ok, w)
               /\ wal_reply' =
                    IF wpc[w] = "waiting"
                      THEN [wal_reply EXCEPT ![w] =
                              IF ok THEN [st |-> "ok", seq |-> wal_seq + 1]
                                    ELSE [st |-> "err", seq |-> 0]]
                      ELSE wal_reply
          /\ wal_alive' = (wpc[w] = "waiting")
    /\ wal_chan' = Tail(wal_chan)
    /\ UNCHANGED <<writer_vars, store_vars, engine_vars, schema_vars, rd_vars, fn_vars, job_vars>>

\* one turn of the loop of run_wal_job: receive a task, write the WAL, send the
\* result on cb (a dropped receiver only gets a warning logged)
WalJobWrite ==
    /\ wal_alive
    /\ wal_chan # <<>>
    /\ LET w == Head(wal_chan)
       IN \E ok \in BOOLEAN :
            /\ WalManagerWrite(ok, w)
            /\ wal_reply' =
                 IF wpc[w] = "waiting"
                   THEN [wal_reply EXCEPT ![w] =
                           IF ok THEN [st |-> "ok", seq |-> wal_seq + 1]
                                 ELSE [st |-> "err", seq |-> 0]]
                   ELSE wal_reply
    /\ wal_chan' = Tail(wal_chan)
    /\ UNCHANGED <<wal_alive, writer_vars, store_vars, engine_vars, schema_vars, rd_vars, fn_vars, job_vars>>

\* the spawned WAL task ends (it panicked or its runtime dropped it): its
\* receiver and the queued tasks with their reply senders are dropped
WalJobExit ==
    /\ engine = "running"
    /\ wal_alive
    /\ wal_alive' = FALSE
    /\ wal_chan' = <<>>
    /\ wal_reply' = [w \in Writers |->
                       IF \E i \in 1..Len(wal_chan) : wal_chan[i] = w
                         THEN [st |-> "closed", seq |-> 0]
                         ELSE wal_reply[w]]
    /\ UNCHANGED <<wal_log, wal_seq, writer_vars, store_vars, engine_vars, schema_vars, rd_vars, fn_vars, job_vars>>

\* write: `let (seq, _) = rx.await.context(ReceiveSnafu)??`
WriteRecv(w) ==
    /\ wpc[w] = "waiting"
    /\ wal_reply[w].st # "none"
    /\ IF wal_reply[w].st = "ok"
         THEN /\ wpc' = [wpc EXCEPT ![w] = "insert"]
              /\ wseq' = [wseq EXCEPT ![w] = wal_reply[w].seq]
              /\ UNCHANGED wres
         ELSE /\ wpc' = [wpc EXCEPT ![w] = "failed"]
              /\ wres' = [wres EXCEPT ![w] =
                            IF wal_reply[w].st = "err" THEN "WalErr" ELSE "Receive"]
              /\ UNCHANGED wseq
    /\ UNCHANGED <<wal_vars, store_vars, engine_vars, schema_vars, rd_vars, fn_vars, job_vars>>

\* write: insert_cache(db_name, seq, mem_points) under the write lock of the
\* version set, then Ok(response)
WriteInsertCache(w) ==
    /\ wpc[w] = "insert"
    /\ vs_readers = {}
    /\ LET db == DbOf(w)
           points == MemPoints(index[db], BatchOf(w), w)
           vs == insert_cache(version_set, db, wseq[w], points)
       IN /\ version_set' = vs
          /\ flush_chan' = flush_chan \o FlushReqs(db, TsFamilyFor(version_set, db), vs[db])
    /\ wpc' = [wpc EXCEPT ![w] = "done"]
    /\ wres' = [wres EXCEPT ![w] = "Ok"]
    /\ UNCHANGED <<wseq, index, wal_vars, engine_vars, schema_vars, rd_vars, fn_vars, job_vars>>

\* the caller drops its write future while it awaits the WAL reply
WriteCancel(w) ==
    /\ wpc[w] = "waiting"
    /\ wpc' = [wpc EXCEPT ![w] = "cancelled"]
    /\ UNCHANGED <<wres, wseq, wal_vars, store_vars, engine_vars, schema_vars, rd_vars, fn_vars, job_vars>>

\* write_from_wal that goes through the WAL append as write does
write_from_wal_appends(w, seq) ==
    /\ LET db == DbOf(w)
           keys == IndexPoints(index[db], BatchOf(w), Len(BatchOf(w)))
           points == MemPoints(keys, BatchOf(w), w)
           vs == insert_cache(version_set, db, seq, points)
       IN /\ index' = [index EXCEPT ![db] = keys]
          /\ version_set' = vs
          /\ flush_chan' = flush_chan \o FlushReqs(db, TsFamilyFor(version_set, db), vs[db])
    /\ wal_seq' = wal_seq + 1
    /\ wal_log' = Append(wal_log, [seq |-> wal_seq + 1, w |-> w])
    /\ UNCHANGED <<wal_chan, wal_reply, wal_alive>>

\* write_from_wal that builds the points and leaves out insert_cache
write_from_wal_no_insert(w, seq) ==
    /\ LET db == DbOf(w)
           keys == IndexPoints(index[db], BatchOf(w), Len(BatchOf(w)))
       IN index' = [index EXCEPT ![db] = keys]
    /\ UNCHANGED <<version_set, flush_chan, wal_vars>>

\* write_from_wal(write_batch, seq): build_mem_points and insert_cache, no WAL
write_from_wal(w, seq) ==
    /\ LET db == DbOf(w)
           keys == IndexPoints(index[db], BatchOf(w), Len(BatchOf(w)))
           points == MemPoints(keys, BatchOf(w), w)
           vs == insert_cache(version_set, db, seq, points)
       IN /\ index' = [index EXCEPT ![db] = keys]
          /\ version_set' = vs
          /\ flush_chan' = flush_chan \o FlushReqs(db, TsFamilyFor(version_set, db), vs[db])
    /\ UNCHANGED wal_vars

\* a ts-family as recover_summary rebuilds it: its files, no cache content
RecoveredTsFamily(tsf) ==
    [tsf EXCEPT !.mut = <<>>, !.delta_mut = <<>>, !.immut = <<>>, !.delta_immut = <<>>]

\* the process dies and open() starts: memory is lost, the WAL, the summary
\* and the series index are on disk; the write futures in flight are gone
Crash ==
    /\ engine = "running"
    /\ crashes < MaxCrashes
    /\ engine' = "recovering"
    /\ crashes' = crashes + 1
    /\ recovered_seq' = wal_seq
    /\ replay_pos' = 1
    /\ wpc' = [w \in Writers |-> IF wpc[w] \in {"waiting", "insert"} THEN "crashed" ELSE wpc[w]]
    /\ wal_chan' = <<>>
    /\ wal_reply' = [w \in Writers |-> NoReply]
    /\ wal_alive' = FALSE
    /\ version_set' = [db \in DOMAIN version_set |-> RecoveredTsFamily(version_set[db])]
    /\ flush_chan' = <<>>
    /\ UNCHANGED <<wres, wseq, wal_log, wal_seq, index, schema_vars, rd_vars, fn_vars, job_vars>>

\* open: recover_wal replays the next surviving WAL entry through
\* write_from_wal
RecoverWal ==
    /\ engine = "recovering"
    /\ replay_pos <= Len(wal_log)
    /\ write_from_wal(wal_log[replay_pos].w, wal_log[replay_pos].seq)
    /\ replay_pos' = replay_pos + 1
    /\ UNCHANGED <<engine, crashes, recovered_seq, writer_vars, schema_vars, rd_vars, fn_vars, job_vars>>

\* open: after recover_wal the WAL, flush, compaction and summary jobs are
\* spawned and the engine is handed to its callers
OpenFinish ==
    /\ engine = "recovering"
    /\ replay_pos > Len(wal_log)
    /\ engine' = "running"
    /\ wal_alive' = TRUE
    /\ UNCHANGED <<crashes, recovered_seq, replay_pos, writer_vars,
                   wal_chan, wal_reply, wal_log, wal_seq, store_vars, schema_vars, rd_vars, fn_vars, job_vars>>

WriteBuildAny == \E w \in Writers : WriteBuild(w)
WriteRecvAny == \E w \in Writers : WriteRecv(w)
WriteInsertCacheAny == \E w \in Writers : WriteInsertCache(w)
WriteCancelAny == \E w \in Writers : WriteCancel(w)

NextWrite ==
    \/ WriteBuildAny
    \/ WalJobWrite
    \/ WalJobExit
    \/ WriteRecvAny
    \/ WriteInsertCacheAny
    \/ WriteCancelAny
    \/ Crash
    \/ RecoverWal
    \/ OpenFinish

SpecWrite == Init /\ [][NextWrite]_vars

WriteTypeOK ==
    /\ engine \in {"running", "recovering"}
    /\ \A w \in Writers :
         wpc[w] \in {"idle", "waiting", "insert", "done", "failed", "cancelled", "crashed"}
    /\ wal_seq = Len(wal_log)

\* the runtime keeps polling every spawned task and every write future that
\* was not dropped, and open() runs to its end; callers need not start a
\* write, and cancelling, crashing and a dying WAL task are not forced
SpecWriteFair ==
    /\ SpecWrite
    /\ WF_vars(WalJobWrite)
    /\ WF_vars(WriteRecvAny)
    /\ WF_vars(WriteInsertCacheAny)
    /\ WF_vars(RecoverWal)
    /\ WF_vars(OpenFinish)

\* ========================================================================
\* Properties of the write path and of recovery
\* ========================================================================

SeqRange(q) == {q[i] : i \in 1..Len(q)}

\* every cell held by any memcache of the ts-family, flushed or not
AllMemCells(tsf) ==
    SeqRange(tsf.mut) \cup SeqRange(tsf.delta_mut)
    \cup UNION {SeqRange(m.cells) : m \in SeqRange(tsf.immut)}
    \cup UNION {SeqRange(m.cells) : m \in SeqRange(tsf.delta_immut)}

\* every cell held by any memcache of any ts-family
AllCells(vs) == UNION {AllMemCells(vs[db]) : db \in DOMAIN vs}

\* the WAL holds an entry of caller w
Appended(w) == \E i \in 1..Len(wal_log) : wal_log[i].w = w

\* the cells the batch of caller w puts into a cache under sequence seq, given
\* the series keys of its database
BatchCells(keys, w, seq) ==
    {Cell(unite_id(FieldColumn, SidOf(keys, BatchOf(w)[i].key)), BatchOf(w)[i].ts, seq, w) :
       i \in 1..Len(BatchOf(w))}

C12_FailedWriteCommitsNothing ==
    [][ \A w \in Writers :
          /\ (wpc[w] = "idle" /\ wpc'[w] = "failed" /\ wres'[w] \in DecodeErrors) =>
               /\ wal_chan' = wal_chan
               /\ wal_seq' = wal_seq
               /\ wal_log' = wal_log
               /\ version_set' = version_set
          /\ wpc'[w] = "failed" =>
               /\ wres'[w] \in DecodeErrors \cup WalErrors
               /\ \A c \in AllCells(version_set') : c.val # w
               /\ ~Appended(w)'
      ]_vars

\* one write failed in build_mem_points, another on its WAL task or reply
C12_Witness ==
    /\ \E w \in Writers : wpc[w] = "failed" /\ wres[w] \in DecodeErrors
    /\ \E w \in Writers : wpc[w] = "failed" /\ wres[w] \in WalErrors

\* C13: once the WAL holds the entry of a write whose caller was waiting for
\* the reply, the points of that write get into the ts-family cache under the
\* sequence of the entry, whatever the caller does afterwards.
C13_AppendedWriteReachesCache ==
    \A w \in Writers :
      (Appended(w) /\ wpc[w] = "waiting") ~>
        \E i \in 1..Len(wal_log) :
          /\ wal_log[i].w = w
          /\ BatchCells(index[DbOf(w)], w, wal_log[i].seq) \subseteq AllCells(version_set)

\* C14: write_from_wal(batch, seq) and the insert step of write(batch) that
\* was assigned seq have the same effect: afterwards the index knows every
\* series of the batch, no series changed its id, and the caches hold exactly
\* the cells they held plus the cells of the batch under seq; write_from_wal
\* touches neither the WAL channel nor the WAL.
SameWriteEffect(w, seq) ==
    LET db == DbOf(w)
    IN /\ \A i \in 1..Len(BatchOf(w)) : SidOf(index'[db], BatchOf(w)[i].key) # 0
       /\ \A i \in 1..Len(index[db]) : index'[db][i] = index[db][i]
       /\ db \in DOMAIN version_set'
       /\ AllCells(version_set') =
            AllCells(version_set) \cup BatchCells(index'[db], w, seq)

C14_WriteFromWalLikeWrite ==
    [][ /\ \A w \in Writers :
             (wpc[w] = "insert" /\ wpc'[w] = "done") => SameWriteEffect(w, wseq[w])
        /\ (engine = "recovering" /\ replay_pos' = replay_pos + 1) =>
             /\ SameWriteEffect(wal_log[replay_pos].w, wal_log[replay_pos].seq)
             /\ wal_chan' = wal_chan
             /\ wal_log' = wal_log
             /\ wal_seq' = wal_seq
      ]_vars

\* open() has replayed a WAL entry into the cache
C14_Witness ==
    /\ engine = "recovering"
    /\ replay_pos > 1
    /\ AllCells(version_set) # {}

TimeRange(min, max) == [min_ts |-> min, max_ts |-> max]

\* TimeRange::overlaps
overlaps(a, b) == a.min_ts <= b.max_ts /\ b.min_ts <= a.max_ts

\* a timestamp inside a range (MemEntry::read_cell, tombstone ranges)
InRange(r, ts) == r.min_ts <= ts /\ ts <= r.max_ts

SetMin(S) == CHOOSE x \in S : \A y \in S : x <= y

\* the levels of a Version: 0 is the delta level
Levels == {0, 1}

\* a TSM file (ColumnFile) and its time range
ColumnFile(id, level, cells) == [id |-> id, level |-> level, cells |-> cells]

file_time_range(f) ==
    TimeRange(SetMin({c.ts : c \in f.cells}), SetMax({c.ts : c \in f.cells}))

\* the files of one level of a file set
LevelFiles(files, l) == {f \in files : f.level = l}

\* LevelInfo.time_range: the hull of the time ranges of the level's files; an
\* empty level overlaps nothing
level_overlaps(files, l, r) ==
    /\ LevelFiles(files, l) # {}
    /\ overlaps(TimeRange(SetMin({file_time_range(f).min_ts : f \in LevelFiles(files, l)}),
                          SetMax({file_time_range(f).max_ts : f \in LevelFiles(files, l)})),
                r)

\* files of a level in the order of the level's file list
RECURSIVE FileSeq(_)
FileSeq(files) ==
    IF files = {} THEN <<>>
    ELSE LET f == CHOOSE x \in files : \A y \in files : x.id <= y.id
         IN <<f>> \o FileSeq(files \ {f})

\* cells in timestamp order
RECURSIVE CellSeq(_)
CellSeq(cells) ==
    IF cells = {} THEN <<>>
    ELSE LET c == CHOOSE x \in cells :
                    \A y \in cells : x.ts < y.ts \/ (x.ts = y.ts /\ x.seq <= y.seq)
         IN <<c>> \o CellSeq(cells \ {c})

\* a tombstone record of a file: field ids and time range
Tombstone(file_id, fids, min, max) ==
    [file |-> file_id, fids |-> fids, min |-> min, max |-> max]

\* a cell of a file that a tombstone of the file covers
Tombstoned(tombs, f, c) ==
    \E t \in tombs : t.file = f.id /\ c.fid \in t.fids /\ t.min <= c.ts /\ c.ts <= t.max

\* data_cache.get(&field_id) then mem_entry.read_cell(time_range)
read_cell(cells, fid, r) == SelectSeq(cells, LAMBDA c : c.fid = fid /\ InRange(r, c.ts))

\* the loop over a list of immutable caches, flushed ones skipped
RECURSIVE read_immut(_, _, _)
read_immut(caches, fid, r) ==
    IF caches = <<>> THEN <<>>
    ELSE (IF Head(caches).flushed THEN <<>> ELSE read_cell(Head(caches).cells, fid, r))
         \o read_immut(Tail(caches), fid, r)

\* the blocks of one file for a field, tombstones applied
read_file(tombs, f, fid, r) ==
    CellSeq({c \in f.cells : c.fid = fid /\ InRange(r, c.ts) /\ ~Tombstoned(tombs, f, c)})

RECURSIVE read_files(_, _, _, _)
read_files(tombs, fs, fid, r) ==
    IF fs = <<>> THEN <<>>
    ELSE read_file(tombs, Head(fs), fid, r) \o read_files(tombs, Tail(fs), fid, r)

\* level_info.read_column_file(ts_family_id, field_id, time_range)
read_column_file(tombs, files, l, fid, r) ==
    read_files(tombs, FileSeq(LevelFiles(files, l)), fid, r)

\* the levels the first loop of read_point reads: every level but 0
UpperLevels == {l \in Levels : l # 0}

RECURSIVE read_upper_levels(_, _, _, _, _)
read_upper_levels(tombs, files, ls, fid, r) ==
    IF ls = {} THEN <<>>
    ELSE read_column_file(tombs, files, SetMin(ls), fid, r)
         \o read_upper_levels(tombs, files, ls \ {SetMin(ls)}, fid, r)

\* read_point whose loop over the levels does not skip level 0
read_point_delta_in_loop(vs, tombs, db, r, fid) ==
    IF db \notin DOMAIN vs THEN <<>>
    ELSE LET sv == vs[db]
         IN read_cell(sv.mut, fid, r)
            \o read_cell(sv.delta_mut, fid, r)
            \o read_immut(sv.delta_immut, fid, r)
            \o read_immut(sv.immut, fid, r)
            \o read_upper_levels(tombs, sv.files, Levels, fid, r)
            \o read_column_file(tombs, sv.files, 0, fid, r)

\* read_point(db, time_range, field_id) on the superversion it takes
read_point(vs, tombs, db, r, fid) ==
    IF db \notin DOMAIN vs THEN <<>>
    ELSE LET sv == vs[db]
         IN read_cell(sv.mut, fid, r)
            \o read_cell(sv.delta_mut, fid, r)
            \o read_immut(sv.delta_immut, fid, r)
            \o read_immut(sv.immut, fid, r)
            \o read_upper_levels(tombs, sv.files, UpperLevels, fid, r)
            \o read_column_file(tombs, sv.files, 0, fid, r)

\* the superversion read_point takes: its number, -1 when the database has no
\* ts-family
super_version(vs, db) == IF db \in DOMAIN vs THEN vs[db].sv ELSE -1

\* DataBlock::merge_blocks: timestamp order, one cell per timestamp, the
\* latest write wins
merge_blocks(data) ==
    LET S == SeqRange(data)
    IN CellSeq({c \in S : \A d \in S : d.ts = c.ts => d.seq <= c.seq})

\* --------------------------------------------------------------- flush
\* the flush task, while it runs, receives a request and reads the frozen
\* cache it names
FlushStart ==
    /\ engine = "running"
    /\ flush_alive
    /\ fjob = <<>>
    /\ flush_chan # <<>>
    /\ LET req == Head(flush_chan)
           tsf == version_set[req.db]
           cache == IF req.delta THEN tsf.delta_immut[req.idx] ELSE tsf.immut[req.idx]
       IN fjob' = <<[db |-> req.db, delta |-> req.delta, idx |-> req.idx,
                     cells |-> SeqRange(cache.cells)]>>
    /\ flush_chan' = Tail(flush_chan)
    /\ UNCHANGED <<index, version_set, engine_vars, writer_vars, wal_vars>>
    /\ UNCHANGED <<tombstones, reader, deleter, del_call, schema_vars, fn_vars, job_vars>>

\* run_flush_memtable_job publishes its result: the new file joins level 1
\* (level 0 for a delta cache), the cache is marked flushed, the ts-family gets
\* a new superversion
FlushFinish ==
    /\ engine = "running"
    /\ fjob # <<>>
    /\ LET job == fjob[1]
           tsf == version_set[job.db]
           file == ColumnFile(Cardinality(tsf.files) + 1,
                              IF job.delta THEN 0 ELSE 1, job.cells)
           files == IF job.cells = {} THEN tsf.files ELSE tsf.files \cup {file}
       IN version_set' =
            [version_set EXCEPT ![job.db] =
               IF job.delta
                 THEN [tsf EXCEPT !.delta_immut[job.idx].flushed = TRUE,
                                  !.files = files, !.sv = @ + 1]
                 ELSE [tsf EXCEPT !.immut[job.idx].flushed = TRUE,
                                  !.files = files, !.sv = @ + 1]]
    /\ fjob' = <<>>
    /\ UNCHANGED <<index, flush_chan, engine_vars, writer_vars, wal_vars>>
    /\ UNCHANGED <<tombstones, reader, deleter, del_call, schema_vars, fn_vars, job_vars>>

\* ---------------------------------------------------------------- read
\* the whole time range the reader asks for
FullRange == TimeRange(0, 3)

ReadRequest(sids, fields) ==
    [db |-> "db1", sids |-> sids, range |-> FullRange, fields |-> fields]

\* the calls of read the reader may make: two written series, a series that
\* was never written, a field that was never written
ReadRequests ==
    { ReadRequest(<<1, 2>>, <<FieldColumn>>),
      ReadRequest(<<3>>, <<FieldColumn>>),
      ReadRequest(<<1>>, <<FieldColumn, FieldColumn + 1>>) }

\* number of read_point calls of a request, and the series and field of call k
NumCalls(req) == Len(req.sids) * Len(req.fields)
CallSid(req, k) == req.sids[((k - 1) \div Len(req.fields)) + 1]
CallField(req, k) == req.fields[((k - 1) % Len(req.fields)) + 1]

\* a HashMap lookup that yields the empty value for an absent key
EntryOr(m, k) == IF k \in DOMAIN m THEN m[k] ELSE <<>>

\* the second loop of read: merge_blocks on every entry
final_ans(ans) ==
    [sid \in DOMAIN ans |-> [f \in DOMAIN ans[sid] |-> merge_blocks(ans[sid][f])]]

\* read(db, sids, time_range, fields) is called
ReadStart ==
    /\ engine = "running"
    /\ reader.pc = "idle"
    /\ \E req \in ReadRequests :
         reader' = [pc |-> "reading", req |-> req, pos |-> 1, ans |-> <<>>, svs |-> <<>>]
    /\ UNCHANGED <<kv_vars, tombstones, fjob, deleter, del_call, schema_vars, fn_vars, job_vars>>

\* one turn of the inner loop of read: the entries of the series and of the
\* field are made if absent, read_point takes a superversion and reads it; the
\* last turn is followed by the merge loop and the return
ReadPoint ==
    /\ reader.pc = "reading"
    /\ LET req == reader.req
           sid == CallSid(req, reader.pos)
           field == CallField(req, reader.pos)
           fid == unite_id(field, sid)
           data == read_point(version_set, tombstones, req.db, req.range, fid)
           sid_entry == EntryOr(reader.ans, sid)
           field_id_entry == EntryOr(sid_entry, field) \o data
           ans == MapInsert(reader.ans, sid, MapInsert(sid_entry, field, field_id_entry))
           svs == Append(reader.svs, super_version(version_set, req.db))
       IN reader' =
            IF reader.pos = NumCalls(req)
              THEN [reader EXCEPT !.pc = "done", !.ans = final_ans(ans), !.svs = svs]
              ELSE [reader EXCEPT !.pos = @ + 1, !.ans = ans, !.svs = svs]
    /\ UNCHANGED <<kv_vars, tombstones, fjob, deleter, del_call, schema_vars, fn_vars, job_vars>>

\* ------------------------------------------------------- delete_series
DeleteRequest(sids, min, max) == [db |-> "db1", sids |-> sids, min |-> min, max |-> max]

\* the calls of delete_series the deleter may make
DeleteRequests ==
    { DeleteRequest(<<1>>, 1, 1),
      DeleteRequest(<<1>>, 2, 2),
      DeleteRequest(<<1, 2>>, 1, 2) }

\* get_series_info_list(&sids): the infos of the series the index knows
get_series_info_list(keys, sids) == SelectSeq(sids, LAMBDA sid : sid <= Len(keys))

\* series_info.field_infos() mapped to their field ids
field_ids(sid) == {unite_id(FieldColumn, sid)}

\* tsf.delete_cache(&TimeRange): the call names a time range and no field, the
\* cells inside the range leave every cache
delete_cache(tsf, r) ==
    LET Keep(cells) == SelectSeq(cells, LAMBDA c : ~InRange(r, c.ts))
        KeepAll(caches) == [i \in 1..Len(caches) |->
                              [caches[i] EXCEPT !.cells = Keep(@)]]
    IN [tsf EXCEPT !.mut = Keep(@), !.delta_mut = Keep(@),
                   !.immut = KeepAll(@), !.delta_immut = KeepAll(@)]

\* every cell the store holds: caches not yet flushed, and files
StoreCells(vs) ==
    UNION {MemCells(vs[db]) \cup UNION {f.cells : f \in vs[db].files} : db \in DOMAIN vs}

\* the ids of the files of the version set
StoreFiles(vs) == UNION {{f.id : f \in vs[db].files} : db \in DOMAIN vs}

\* a write that is neither running nor still to come
WriteOver(w) == wpc[w] \in {"done", "failed"}

\* delete_series(db, sids, min, max) is called: the series infos are fetched
\* from the index
DeleteStart ==
    /\ engine = "running"
    /\ deleter.pc = "idle"
    /\ \E req \in DeleteRequests :
         LET infos == get_series_info_list(index[req.db], req.sids)
         IN deleter' = [pc |-> IF infos = <<>> THEN "done" ELSE "cache",
                        req |-> req, infos |-> infos, pos |-> 1, snap |-> {}]
    /\ del_call' = [cells |-> StoreCells(version_set),
                    files |-> StoreFiles(version_set),
                    quiet |-> \A w \in Writers : WriteOver(w)]
    /\ UNCHANGED <<kv_vars, tombstones, fjob, reader, schema_vars, fn_vars, job_vars>>

\* the deleter after the body of the loop for series infos[pos]
NextSeries(d) ==
    IF d.pos = Len(d.infos)
      THEN [d EXCEPT !.pc = "done", !.snap = {}]
      ELSE [d EXCEPT !.pc = "cache", !.pos = @ + 1, !.snap = {}]

\* the block under version_set.read() for one series: delete_cache, then the
\* superversion is taken
DeleteCache ==
    /\ deleter.pc = "cache"
    /\ LET db == deleter.req.db
           r == TimeRange(deleter.req.min, deleter.req.max)
       IN IF db \in DOMAIN version_set
            THEN /\ version_set' = [version_set EXCEPT ![db] = delete_cache(@, r)]
                 /\ deleter' = [deleter EXCEPT !.pc = "tombstone",
                                               !.snap = version_set[db].files]
            ELSE /\ deleter' = NextSeries(deleter)
                 /\ UNCHANGED version_set
    /\ UNCHANGED <<index, flush_chan, engine_vars, writer_vars, wal_vars>>
    /\ UNCHANGED <<tombstones, fjob, reader, del_call, schema_vars, fn_vars, job_vars>>

\* the files of the superversion that get a tombstone, whatever their level
TombstoneTargets_any_file_of_level(files, r) ==
    {f \in files : level_overlaps(files, f.level, r)}

\* the files of the superversion that get a tombstone: those of an overlapping
\* level that overlap the range themselves
TombstoneTargets(files, r) ==
    {f \in files : level_overlaps(files, f.level, r) /\ overlaps(file_time_range(f), r)}

\* the target files in the order of the two loops: by level, then by file
RECURSIVE TargetSeq(_)
TargetSeq(files) ==
    IF files = {} THEN <<>>
    ELSE LET l == SetMin({f.level : f \in files})
         IN FileSeq(LevelFiles(files, l)) \o TargetSeq(files \ LevelFiles(files, l))

\* the loops over the levels and files of the superversion for one series:
\* open_for_write, add_range and flush per overlapping file; an error of one
\* of them returns it at once
DeleteTombstones ==
    /\ deleter.pc = "tombstone"
    /\ LET req == deleter.req
           sid == deleter.infos[deleter.pos]
           targets == TargetSeq(TombstoneTargets(deleter.snap, TimeRange(req.min, req.max)))
       IN \E k \in 0..Len(targets) :
            /\ tombstones' = tombstones \cup
                 {Tombstone(targets[i].id, field_ids(sid), req.min, req.max) : i \in 1..k}
            /\ deleter' = IF k = Len(targets)
                            THEN NextSeries(deleter)
                            ELSE [deleter EXCEPT !.pc = "failed", !.snap = {}]
    /\ UNCHANGED <<kv_vars, fjob, reader, del_call, schema_vars, fn_vars, job_vars>>

\* writers, the WAL job and the flush job under one caller of read
NextRead ==
    \/ WriteBuildAny
    \/ WalJobWrite
    \/ WriteRecvAny
    \/ WriteInsertCacheAny
    \/ FlushStart
    \/ FlushFinish
    \/ ReadStart
    \/ ReadPoint

SpecRead == Init /\ [][NextRead]_vars

\* writers, the WAL job and the flush job under one caller of delete_series
NextDelete ==
    \/ WriteBuildAny
    \/ WalJobWrite
    \/ WriteRecvAny
    \/ WriteInsertCacheAny
    \/ FlushStart
    \/ FlushFinish
    \/ DeleteStart
    \/ DeleteCache
    \/ DeleteTombstones

SpecDelete == Init /\ [][NextDelete]_vars

ReadTypeOK ==
    /\ reader.pc \in {"idle", "reading", "done"}
    /\ deleter.pc \in {"idle", "cache", "tombstone", "done", "failed"}
    /\ Len(fjob) <= 1
    /\ \A t \in tombstones : t.min <= t.max

\* ========================================================================
\* Properties of read and delete_series
\* ========================================================================

\* the series ids the index ever hands out: one per series key the callers write
WrittenSids ==
    1..Cardinality(UNION {{BatchOf(w)[i].key : i \in 1..Len(BatchOf(w))} : w \in Writers})

\* a series nobody writes, or a field column nobody writes
Unknown(sid, field) == sid \notin WrittenSids \/ field # FieldColumn

\* C16: a finished read has no entry for a requested series or field that is
\* unknown.
C16_UnknownHasNoEntry ==
    reader.pc = "done" =>
      \A sid \in SeqRange(reader.req.sids), field \in SeqRange(reader.req.fields) :
        Unknown(sid, field) =>
          ~(sid \in DOMAIN reader.ans /\ field \in DOMAIN reader.ans[sid])

\* C17: the read_point calls of one read that found the ts-family all took the
\* same superversion.
C17_ReadPinsOneSuperVersion ==
    reader.pc = "done" =>
      \A i, j \in 1..Len(reader.svs) :
        (reader.svs[i] >= 0 /\ reader.svs[j] >= 0) => reader.svs[i] = reader.svs[j]

\* what a read of one series over the whole range returns now
ReadNow(db, sid) ==
    SeqRange(merge_blocks(read_point(version_set, tombstones, db, FullRange,
                                     unite_id(FieldColumn, sid))))

\* the window of the delete_series call
Window == TimeRange(deleter.req.min, deleter.req.max)

\* the series the delete_series call found in the index
DeletedSids == SeqRange(deleter.infos)

\* the cells of a series the store held when delete_series was called
CellsAtCall(sid) == {c \in del_call.cells : c.fid \in field_ids(sid)}

\* C18: every write was over when delete_series was called and it returned Ok:
\* a read of a deleted series returns exactly the cells outside the window.
C18_ReadAfterDeleteIsExact ==
    (deleter.pc = "done" /\ del_call.quiet) =>
      \A sid \in DeletedSids :
        ReadNow(deleter.req.db, sid) = {c \in CellsAtCall(sid) : ~InRange(Window, c.ts)}

\* the files of the ts-family that existed when delete_series was called
FilesAtCall ==
    IF deleter.req.db \in DOMAIN version_set
      THEN {f \in version_set[deleter.req.db].files : f.id \in del_call.files}
      ELSE {}

\* the file a tombstone belongs to
FileOf(t) == CHOOSE f \in version_set[deleter.req.db].files : f.id = t.file

\* C19: when delete_series has returned Ok, every file that existed at the call
\* and overlaps the window has a tombstone with the field ids of each deleted
\* series and the window, on whatever level it is, and no tombstone belongs to
\* a file that does not overlap the window.
C19_TombstonePerOverlappingFile ==
    deleter.pc = "done" =>
      /\ \A f \in FilesAtCall : \A sid \in DeletedSids :
           overlaps(file_time_range(f), Window) =>
             Tombstone(f.id, field_ids(sid), Window.min_ts, Window.max_ts) \in tombstones
      /\ \A t \in tombstones :
           /\ overlaps(file_time_range(FileOf(t)), Window)
           /\ t.min = Window.min_ts /\ t.max = Window.max_ts
           /\ \E sid \in DeletedSids : t.fids = field_ids(sid)

\* delete_series returned Ok, the delta file got a tombstone and a file of
\* level 1 that does not overlap the window got none
C19_Witness ==
    /\ deleter.pc = "done"
    /\ \E t \in tombstones : FileOf(t).level = 0
    /\ \E f \in FilesAtCall :
         /\ f.level = 1
         /\ ~overlaps(file_time_range(f), Window)
         /\ \A t \in tombstones : t.file # f.id

\* C20: when delete_series has returned Ok, no read returns a cell of a deleted
\* series inside the window that the store held when delete_series was called.
C20_DeletedStaysDeleted ==
    deleter.pc = "done" =>
      \A sid \in DeletedSids :
        \A c \in ReadNow(deleter.req.db, sid) :
          InRange(Window, c.ts) => c \notin CellsAtCall(sid)

\* ========================================================================
\* Free functions: 64-bit integers
\* ========================================================================
\* A 64-bit value does not fit a model integer: a magnitude is kept as its
\* digits in base 1000, least significant first and without leading zeros,
\* a signed value as a sign and a magnitude.

\* ---------------------------------------------------------------- bounds
\* how far around each boundary value the arguments of the calls are taken
MaxDelta == 2
\* longest tenant, database and owner string handed to the string functions
MaxStrLen == 2

\* the scaling step between two neighbouring precisions
Thousand == 1000

\* drop the leading zero digits
RECURSIVE Trim(_)
Trim(m) ==
    IF m # <<>> /\ m[Len(m)] = 0 THEN Trim(SubSeq(m, 1, Len(m) - 1)) ELSE m

\* the magnitude of a small natural number
RECURSIVE Mag(_)
Mag(n) == IF n = 0 THEN <<>> ELSE <<n % Thousand>> \o Mag(n \div Thousand)

RestOf(m) == IF m = <<>> THEN <<>> ELSE Tail(m)
DigitOf(m) == IF m = <<>> THEN 0 ELSE Head(m)

\* a < b
RECURSIVE MagLess(_, _)
MagLess(a, b) ==
    IF Len(a) # Len(b) THEN Len(a) < Len(b)
    ELSE IF a = <<>> THEN FALSE
    ELSE IF a[Len(a)] # b[Len(b)] THEN a[Len(a)] < b[Len(b)]
    ELSE MagLess(SubSeq(a, 1, Len(a) - 1), SubSeq(b, 1, Len(b) - 1))

MagLeq(a, b) == a = b \/ MagLess(a, b)

\* a + b + carry
RECURSIVE MagAddC(_, _, _)
MagAddC(a, b, c) ==
    IF a = <<>> /\ b = <<>>
      THEN (IF c = 0 THEN <<>> ELSE <<c>>)
      ELSE LET x == DigitOf(a) + DigitOf(b) + c
           IN <<x % Thousand>> \o MagAddC(RestOf(a), RestOf(b), x \div Thousand)

MagAdd(a, b) == MagAddC(a, b, 0)

\* a - b - borrow, for a >= b
RECURSIVE MagSubB(_, _, _)
MagSubB(a, b, br) ==
    IF a = <<>> THEN <<>>
    ELSE LET x == Head(a) - DigitOf(b) - br
         IN <<IF x < 0 THEN x + Thousand ELSE x>>
            \o MagSubB(Tail(a), RestOf(b), IF x < 0 THEN 1 ELSE 0)

MagSub(a, b) == Trim(MagSubB(a, b, 0))

\* a * k + carry, for a small factor k
RECURSIVE MagMulC(_, _, _)
MagMulC(a, k, c) ==
    IF a = <<>>
      THEN Mag(c)
      ELSE LET x == Head(a) * k + c
           IN <<x % Thousand>> \o MagMulC(Tail(a), k, x \div Thousand)

MagMul(a, k) == Trim(MagMulC(a, k, 0))

\* a * 1000^n and a / 1000^n (the quotient, the remainder dropped)
MagShl(a, n) == IF a = <<>> THEN <<>> ELSE [i \in 1..n |-> 0] \o a
MagShr(a, n) == IF Len(a) <= n THEN <<>> ELSE SubSeq(a, n + 1, Len(a))

\* i64::MAX = 9_223_372_036_854_775_807, |i64::MIN|, u64::MAX, 2^64
I64MaxMag == <<807, 775, 854, 36, 372, 223, 9>>
I64MinMag == <<808, 775, 854, 36, 372, 223, 9>>
U64MaxMag == <<615, 551, 709, 73, 744, 446, 18>>
TwoTo64 == <<616, 551, 709, 73, 744, 446, 18>>

\* a signed value; zero has no sign
I64(neg, mag) == [neg |-> neg /\ mag # <<>>, mag |-> mag]
I64_MAX == I64(FALSE, I64MaxMag)
I64_MIN == I64(TRUE, I64MinMag)

\* the value is one an i64 can hold
FitsI64(neg, mag) == IF neg THEN MagLeq(mag, I64MinMag) ELSE MagLeq(mag, I64MaxMag)

\* Option<i64>
Some(v) == [some |-> TRUE, val |-> v]
None == [some |-> FALSE, val |-> I64(FALSE, <<>>)]

\* the magnitudes within MaxDelta of the given ones
Around(anchors) ==
    UNION {{MagAdd(a, Mag(d)) : d \in 0..MaxDelta}
           \cup {MagSub(a, Mag(d)) : d \in {e \in 0..MaxDelta : MagLeq(Mag(e), a)}}
           : a \in anchors}

\* ========================================================================
\* Free functions: precision conversion
\* ========================================================================

\* enum Precision { MS, US, NS }
Precisions == {"MS", "US", "NS"}

\* 2^53 = 9_007_199_254_740_992
TwoTo53 == <<992, 740, 254, 199, 7, 9>>

\* the timestamps handed to timestamp_convert: around zero, around the
\* scaling factors, around the largest values that can be scaled up, around
\* 2^53 and at both ends of i64
TimestampAnchors ==
    { <<>>, Mag(1000), Mag(1000000), TwoTo53, I64MaxMag,
      MagShr(I64MaxMag, 1), MagShr(I64MaxMag, 2) }

Timestamps ==
    {I64(neg, m) : neg \in BOOLEAN, m \in {x \in Around(TimestampAnchors) : FitsI64(FALSE, x)}}
    \cup {I64_MIN}

\* ts.checked_mul(1000^n)
checked_mul(ts, n) ==
    IF FitsI64(ts.neg, MagShl(ts.mag, n)) THEN Some(I64(ts.neg, MagShl(ts.mag, n))) ELSE None

\* ts / 1000^n: the quotient rounded towards zero
div(ts, n) == I64(ts.neg, MagShr(ts.mag, n))

\* timestamp_convert with NS -> MS dividing by 1_000
timestamp_convert_ns_ms_by_thousand(from, to, ts) ==
    CASE (from = "NS" /\ to = "US") \/ (from = "US" /\ to = "MS") -> Some(div(ts, 1))
      [] (from = "MS" /\ to = "US") \/ (from = "US" /\ to = "NS") -> checked_mul(ts, 1)
      [] from = "NS" /\ to = "MS" -> Some(div(ts, 1))
      [] from = "MS" /\ to = "NS" -> checked_mul(ts, 2)
      [] OTHER -> Some(ts)

\* timestamp_convert with MS -> NS multiplying without the overflow check
timestamp_convert_unchecked(from, to, ts) ==
    CASE (from = "NS" /\ to = "US") \/ (from = "US" /\ to = "MS") -> Some(div(ts, 1))
      [] (from = "MS" /\ to = "US") \/ (from = "US" /\ to = "NS") -> checked_mul(ts, 1)
      [] from = "NS" /\ to = "MS" -> Some(div(ts, 2))
      [] from = "MS" /\ to = "NS" -> Some(I64(ts.neg, MagShl(ts.mag, 2)))
      [] OTHER -> Some(ts)

\* timestamp_convert(from, to, ts) -> Option<Timestamp>
timestamp_convert(from, to, ts) ==
    CASE (from = "NS" /\ to = "US") \/ (from = "US" /\ to = "MS") -> Some(div(ts, 1))
      [] (from = "MS" /\ to = "US") \/ (from = "US" /\ to = "NS") -> checked_mul(ts, 1)
      [] from = "NS" /\ to = "MS" -> Some(div(ts, 2))
      [] from = "MS" /\ to = "NS" -> checked_mul(ts, 2)
      [] OTHER -> Some(ts)

\* the caller makes one call; nothing else moves
FnFrame == call = NoCall /\ UNCHANGED <<schema_vars, kv_vars, rd_vars, job_vars>>

TimestampConvert ==
    /\ FnFrame
    /\ \E from \in Precisions, to \in Precisions, ts \in Timestamps :
         /\ call' = [fn |-> "timestamp_convert", from |-> from, to |-> to, ts |-> ts]
         /\ ret' = timestamp_convert(from, to, ts)

\* ------------------------------------------------------------ C21, C22
IsCall(f) == call.fn = f

\* the call converted milliseconds to nanoseconds
MsToNs == IsCall("timestamp_convert") /\ call.from = "MS" /\ call.to = "NS"

\* what converting the result back to milliseconds gives
BackToMs == timestamp_convert("NS", "MS", ret.val)

\* C21 as stated: every timestamp of magnitude below 2^53 is converted from
\* milliseconds to nanoseconds with a result, and converting that back gives
\* the timestamp.
C21_RoundTripBelowTwoTo53 ==
    (MsToNs /\ MagLess(call.ts.mag, TwoTo53)) => (ret.some /\ BackToMs = Some(call.ts))

\* the largest magnitude whose millionfold fits an i64: 9_223_372_036_854
MaxScalableMs == <<854, 36, 372, 223, 9>>

\* C21 amended: a timestamp of magnitude at most 9_223_372_036_854 is
\* converted from milliseconds to nanoseconds with a result and converting
\* that back gives the timestamp; a larger one gets no result.
C21_RoundTripWhileScalable ==
    MsToNs =>
      IF MagLeq(call.ts.mag, MaxScalableMs)
        THEN ret.some /\ BackToMs = Some(call.ts)
        ELSE ~ret.some

\* the largest timestamp that still round-trips was converted
C21_Witness == MsToNs /\ call.ts = I64(FALSE, MaxScalableMs) /\ ret.some

\* position of a precision on the scale: each step is a factor of 1000
Fineness(p) == CASE p = "MS" -> 0 [] p = "US" -> 1 [] p = "NS" -> 2

RECURSIVE TimesThousand(_, _)
TimesThousand(m, n) == IF n = 0 THEN m ELSE TimesThousand(MagMul(m, Thousand), n - 1)

\* C22: an up-scale returns the exact product when an i64 holds it and no
\* result otherwise, a down-scale returns the quotient rounded towards zero,
\* equal precisions return the timestamp.
C22_ConvertNeverWraps ==
    IsCall("timestamp_convert") =>
      LET up == Fineness(call.to) - Fineness(call.from)
          ts == call.ts
      IN IF up = 0 THEN ret = Some(ts)
         ELSE IF up > 0
           THEN LET product == TimesThousand(ts.mag, up)
                IN IF FitsI64(ts.neg, product)
                     THEN ret = Some(I64(ts.neg, product))
                     ELSE ~ret.some
           ELSE /\ ret.some
                /\ ret.val.neg = (ts.neg /\ ret.val.mag # <<>>)
                /\ MagLeq(TimesThousand(ret.val.mag, -up), ts.mag)
                /\ MagLess(ts.mag, TimesThousand(MagAdd(ret.val.mag, Mag(1)), -up))

\* an up-scale by a million that an i64 cannot hold got no result
C22_Witness ==
    /\ MsToNs
    /\ call.ts = I64(TRUE, MagAdd(MaxScalableMs, Mag(1)))
    /\ ~ret.some

\* ========================================================================
\* Free functions: Duration and ResourceInfo::new
\* ========================================================================

\* enum DurationUnit { Minutes, Hour, Day, Inf }
DurationUnits == {"Minutes", "Hour", "Day", "Inf"}

\* struct Duration { time_num: u64, unit }
Duration(time_num, unit) == [time_num |-> time_num, unit |-> unit]

\* seconds per unit: MINUTES_*, HOUR_* and DAY_* are these times the
\* precision's ticks per second
UnitSeconds(unit) == CASE unit = "Minutes" -> 60 [] unit = "Hour" -> 3600 [] unit = "Day" -> 86400

\* ticks per second as a power of 1000: MILLS 1, MICROS 2, NANOS 3
TickPower(pre) == Fineness(pre) + 1

\* 153_722_867 minutes is the longest duration an i64 holds in nanoseconds
MaxMinutesInNanos == Mag(153722867)

\* the counts handed to the conversions: small ones, Duration::new_inf's
\* 100000, the largest count of minutes that fits in nanoseconds, and both
\* sides of i64::MAX up to u64::MAX
TimeNums ==
    {m \in Around({<<>>, Mag(100000), MaxMinutesInNanos, I64MaxMag, U64MaxMag}) :
        MagLeq(m, U64MaxMag)}

Durations == {Duration(n, u) : n \in TimeNums, u \in DurationUnits}

\* `time_num as i64`: the same 64 bits read as a signed value
as_i64(m) == IF MagLeq(m, I64MaxMag) THEN I64(FALSE, m) ELSE I64(TRUE, MagSub(TwoTo64, m))

\* x.saturating_mul(seconds * 1000^power), the factor positive
saturating_mul(x, seconds, power) ==
    LET product == MagShl(MagMul(x.mag, seconds), power)
    IN IF FitsI64(x.neg, product) THEN I64(x.neg, product)
       ELSE IF x.neg THEN I64_MIN ELSE I64_MAX

\* Duration::to_precision(pre): to_millisecond, to_microseconds or
\* to_nanoseconds
to_precision(d, pre) ==
    IF d.unit = "Inf" THEN I64_MAX
    ELSE saturating_mul(as_i64(d.time_num), UnitSeconds(d.unit), TickPower(pre))

to_nanoseconds(d) == to_precision(d, "NS")

DurationToPrecision ==
    /\ FnFrame
    /\ \E d \in Durations, pre \in Precisions :
         /\ call' = [fn |-> "to_precision", d |-> d, pre |-> pre]
         /\ ret' = to_precision(d, pre)

\* C23: a conversion returns the count times the unit factor when an i64
\* holds it and i64::MAX otherwise, never a negative value, and i64::MAX for Inf.
C23_DurationSaturates ==
    IsCall("to_precision") =>
      /\ ~ret.neg
      /\ IF call.d.unit = "Inf" THEN ret = I64_MAX
         ELSE LET product == TimesThousand(MagMul(call.d.time_num, UnitSeconds(call.d.unit)),
                                           TickPower(call.pre))
              IN ret = IF MagLeq(product, I64MaxMag) THEN I64(FALSE, product) ELSE I64_MAX

\* ---------------------------------------------------- ResourceInfo::new
\* now_timestamp_nanos() at the call: the epoch, and a day in 2023
Nows == {I64(FALSE, Mag(1)), I64(FALSE, MagShl(Mag(1700000000), 3))}

\* the `after` argument: None or Some(duration)
Afters == {[some |-> FALSE, d |-> Duration(<<>>, "Day")]}
          \cup {[some |-> TRUE, d |-> d] : d \in Durations}

\* a + b for b > 0 and a >= 0 as `+=` computes it: the sum when an i64 holds
\* it; otherwise the build decides between a panic and the wrapped value
AddAssign(a, b) ==
    LET sum == MagAdd(a.mag, b.mag)
    IN IF MagLeq(sum, I64MaxMag)
         THEN {[panicked |-> FALSE, val |-> I64(FALSE, sum)]}
         ELSE {[panicked |-> TRUE, val |-> a],
               [panicked |-> FALSE, val |-> I64(TRUE, MagSub(TwoTo64, sum))]}

\* ResourceInfo::new(.., after, ..) called at time now: the ResourceInfo values
\* it can return (time, status, try_count, is_new_add), or a panic
ResourceInfo_new(now, after) ==
    LET after_nanos == to_nanoseconds(after.d)
    IN IF after.some /\ ~after_nanos.neg /\ after_nanos.mag # <<>>
         THEN {[panicked |-> t.panicked, time |-> t.val, status |-> "Schedule",
                try_count |-> 0, is_new_add |-> TRUE] : t \in AddAssign(now, after_nanos)}
         ELSE {[panicked |-> FALSE, time |-> now, status |-> "Executing",
                try_count |-> 0, is_new_add |-> TRUE]}

ResourceInfoNew ==
    /\ FnFrame
    /\ \E now \in Nows, after \in Afters :
         /\ call' = [fn |-> "ResourceInfo::new", now |-> now, after |-> after]
         /\ ret' \in ResourceInfo_new(now, after)

\* the length of the delay in nanoseconds: the count times the unit factor,
\* i64::MAX for Inf and beyond
DelayNanos(d) ==
    IF d.unit = "Inf" THEN I64MaxMag
    ELSE LET product == TimesThousand(MagMul(d.time_num, UnitSeconds(d.unit)), 3)
         IN IF MagLeq(product, I64MaxMag) THEN product ELSE I64MaxMag

\* C24: with a delay of non-zero length the call returns status Schedule and
\* the creation time plus the delay; with no delay or a zero delay Executing
\* and the creation time; try_count 0 and is_new_add in both cases.
C24_ResourceInfoNew ==
    IsCall("ResourceInfo::new") =>
      /\ ~ret.panicked
      /\ ret.try_count = 0
      /\ ret.is_new_add
      /\ IF call.after.some /\ DelayNanos(call.after.d) # <<>>
           THEN /\ ret.status = "Schedule"
                /\ ret.time = I64(FALSE, MagAdd(call.now.mag, DelayNanos(call.after.d)))
           ELSE /\ ret.status = "Executing"
                /\ ret.time = call.now

\* ========================================================================
\* Free functions: column types, encodings, owner strings, field ids
\* ========================================================================

\* enum TimeUnit of the time column
TimeUnits == {"Second", "Millisecond", "Microsecond", "Nanosecond"}

\* enum ValueType; Geometry carries a sub type and an srid
ValueType(t, sub_type, srid) == [t |-> t, sub_type |-> sub_type, srid |-> srid]
PlainValueTypes ==
    {ValueType(t, "", 0) : t \in {"Unknown", "Float", "Integer", "Unsigned", "Boolean", "String"}}
GeometryTypes == {ValueType("Geometry", g, srid) : g \in {"Point", "LineString"}, srid \in {0, 4326}}
ValueTypes == PlainValueTypes \cup GeometryTypes

\* the values of enum ColumnType { Tag, Time(unit), Field(value_type) }
Tag == [kind |-> "Tag", unit |-> "", value_type |-> ValueType("", "", 0)]
Time(unit) == [kind |-> "Time", unit |-> unit, value_type |-> ValueType("", "", 0)]
Field(vt) == [kind |-> "Field", unit |-> "", value_type |-> vt]
ColumnTypeValues == {Tag} \cup {Time(u) : u \in TimeUnits} \cup {Field(vt) : vt \in ValueTypes}

IsGeometry(ct) == ct.kind = "Field" /\ ct.value_type.t = "Geometry"
StringField == Field(ValueType("String", "", 0))

\* matches_type relaxed in both directions
matches_type_both_ways(self, other) ==
    \/ self = other
    \/ (IsGeometry(self) /\ other = StringField)
    \/ (IsGeometry(other) /\ self = StringField)

\* ColumnType::matches_type(&self, other)
matches_type(self, other) ==
    \/ self = other
    \/ (IsGeometry(self) /\ other = StringField)

MatchesType ==
    /\ FnFrame
    /\ \E a \in ColumnTypeValues, b \in ColumnTypeValues :
         /\ call' = [fn |-> "matches_type", a |-> a, b |-> b]
         /\ ret' = matches_type(a, b)

\* C25: a matches b exactly when they are equal or a is a Geometry field and b
\* the String field; the String field does not match a Geometry field.
C25_MatchesOneDirection ==
    IsCall("matches_type") =>
      /\ ret = (call.a = call.b \/ (IsGeometry(call.a) /\ call.b = StringField))
      /\ (call.a = StringField /\ IsGeometry(call.b)) => ~ret
      /\ (IsGeometry(call.a) /\ IsGeometry(call.b) /\ call.a # call.b) => ~ret

\* a Geometry field was matched against the String field
C25_Witness ==
    IsCall("matches_type") /\ IsGeometry(call.a) /\ call.b = StringField /\ ret

\* ------------------------------------------------------- encoding_valid
\* enum Encoding
Encodings ==
    {"Default", "Null", "Delta", "Quantile", "Gzip", "Bzip", "Gorilla",
     "Snappy", "Zstd", "Zlib", "BitPack", "Unknown"}

\* Encoding::is_*_encoding
is_timestamp_encoding(e) == e \in {"Default", "Null", "Delta", "Quantile"}
is_bigint_encoding(e) == e \in {"Default", "Null", "Delta", "Quantile"}
is_unsigned_encoding(e) == e \in {"Default", "Null", "Delta", "Quantile"}
is_double_encoding(e) == e \in {"Default", "Null", "Gorilla", "Quantile"}
is_string_encoding(e) == e \in {"Default", "Null", "Gzip", "Bzip", "Zstd", "Snappy", "Zlib"}
is_bool_encoding(e) == e \in {"Default", "Null", "BitPack"}

\* TableColumn::encoding_valid(&self), on the column's type and encoding
encoding_valid(column_type, encoding) ==
    IF column_type = Field(ValueType("Float", "", 0)) THEN is_double_encoding(encoding)
    ELSE IF column_type = Field(ValueType("Boolean", "", 0)) THEN is_bool_encoding(encoding)
    ELSE IF column_type = Field(ValueType("Integer", "", 0)) THEN is_bigint_encoding(encoding)
    ELSE IF column_type = Field(ValueType("Unsigned", "", 0)) THEN is_unsigned_encoding(encoding)
    ELSE IF column_type = StringField THEN is_string_encoding(encoding)
    ELSE IF column_type.kind = "Time" THEN is_timestamp_encoding(encoding)
    ELSE IF column_type = Tag THEN is_string_encoding(encoding)
    ELSE TRUE

EncodingValid ==
    /\ FnFrame
    /\ \E ct \in ColumnTypeValues, e \in Encodings :
         /\ call' = [fn |-> "encoding_valid", column_type |-> ct, encoding |-> e]
         /\ ret' = encoding_valid(ct, e)

\* C28: an accepted encoding is a string encoding on a String field, a tag or
\* a Geometry field, a float encoding on a Float field, a timestamp encoding
\* on the time column.
C28_EncodingValidForType ==
    (IsCall("encoding_valid") /\ ret) =>
      LET ct == call.column_type
          e == call.encoding
      IN /\ (ct = StringField \/ ct = Tag \/ IsGeometry(ct)) => is_string_encoding(e)
         /\ ct = Field(ValueType("Float", "", 0)) => is_double_encoding(e)
         /\ ct.kind = "Time" => is_timestamp_encoding(e)

\* ------------------------------------------------ make_owner, split_owner
\* strings over a letter and the dot, up to MaxStrLen characters
Chars == {"a", "."}
Strings == UNION {[1..n -> Chars] : n \in 0..MaxStrLen}

\* format!("{}.{}", tenant_name, database_name)
make_owner(tenant_name, database_name) == tenant_name \o <<".">> \o database_name

\* str::find / str::rfind: the 0-based index of the first / last occurrence,
\* -1 for None
find(str, ch) ==
    IF \E i \in 1..Len(str) : str[i] = ch
      THEN SetMin({i \in 1..Len(str) : str[i] = ch}) - 1
      ELSE -1
rfind(str, ch) ==
    IF \E i \in 1..Len(str) : str[i] = ch
      THEN SetMax({i \in 1..Len(str) : str[i] = ch}) - 1
      ELSE -1

\* split_owner splitting at the last dot
split_owner_at_last_dot(owner) ==
    LET at == rfind(owner, ".")
    IN IF at = -1 THEN <<<<>>, <<>>>>
       ELSE IF at < Len(owner)
         THEN <<SubSeq(owner, 1, at), SubSeq(owner, at + 2, Len(owner))>>
         ELSE <<owner, <<>>>>

\* split_owner(owner) -> (&str, &str)
split_owner(owner) ==
    LET at == find(owner, ".")
    IN IF at = -1 THEN <<<<>>, <<>>>>
       ELSE IF at < Len(owner)
         THEN <<SubSeq(owner, 1, at), SubSeq(owner, at + 2, Len(owner))>>
         ELSE <<owner, <<>>>>

\* split_owner on the owner made of a tenant and a database name
SplitMadeOwner ==
    /\ FnFrame
    /\ \E t \in Strings, d \in Strings :
         /\ call' = [fn |-> "split_owner", owner |-> make_owner(t, d),
                     made |-> TRUE, tenant |-> t, database |-> d]
         /\ ret' = split_owner(make_owner(t, d))

\* split_owner on any owner string
SplitOwner ==
    /\ FnFrame
    /\ \E owner \in Strings :
         /\ call' = [fn |-> "split_owner", owner |-> owner,
                     made |-> FALSE, tenant |-> <<>>, database |-> <<>>]
         /\ ret' = split_owner(owner)

HasDot(str) == \E i \in 1..Len(str) : str[i] = "."

\* C26: the owner made of a tenant without a dot and any database splits into
\* that tenant and that database; an owner that ends at its first dot has an
\* empty database.
C26_SplitOwnerInvertsMakeOwner ==
    IsCall("split_owner") =>
      /\ (call.made /\ ~HasDot(call.tenant)) => ret = <<call.tenant, call.database>>
      /\ (HasDot(call.owner) /\ find(call.owner, ".") = Len(call.owner) - 1) => ret[2] = <<>>

\* a database name with a dot of its own was split off a non-empty tenant
C26_Witness ==
    /\ IsCall("split_owner") /\ call.made
    /\ call.tenant # <<>> /\ ~HasDot(call.tenant)
    /\ HasDot(call.database)
    /\ ret = <<call.tenant, call.database>>

\* --------------------------------------------------------------- unite_id
ColumnIds == 0..(ColumnIdSpace - 1)
SeriesIds == 0..(SeriesIdSpace - 1)

\* the field id read computes for a column and a series
UniteId ==
    /\ FnFrame
    /\ \E c \in ColumnIds, sid \in SeriesIds :
         /\ call' = [fn |-> "unite_id", column_id |-> c, sid |-> sid]
         /\ ret' = unite_id(c, sid)

\* C27: no other pair of a column id and a series id has the field id of the
\* call.
C27_FieldIdIsInjective ==
    IsCall("unite_id") =>
      \A c \in ColumnIds, sid \in SeriesIds :
        unite_id(c, sid) = ret => (c = call.column_id /\ sid = call.sid)

NextFn ==
    \/ TimestampConvert
    \/ DurationToPrecision
    \/ ResourceInfoNew
    \/ MatchesType
    \/ EncodingValid
    \/ SplitMadeOwner
    \/ SplitOwner
    \/ UniteId

SpecFn == Init /\ [][NextFn]_vars

\* ========================================================================
\* Properties of the order of cache insertion and of read_point
\* ========================================================================

\* two callers write to a common series
SharesSeries(u, w) ==
    \E i \in 1..Len(BatchOf(u)), j \in 1..Len(BatchOf(w)) : BatchOf(u)[i].key = BatchOf(w)[j].key

\* C29: when a write inserts its points into the cache, every write to a
\* common series that has already inserted its points has a smaller sequence.
C29_CacheInsertInSequenceOrder ==
    [][ \A w \in Writers :
          (wpc[w] = "insert" /\ wpc'[w] = "done") =>
            \A u \in Writers \ {w} :
              (wpc[u] = "done" /\ SharesSeries(u, w)) => wseq[u] < wseq[w] ]_vars

\* the places of a ts-family that hold a cell for read_point, numbered in the
\* order of the claim: 1 mut, 2 delta_mut, 3 an un-flushed delta_immut, 4 an
\* un-flushed immut, 5 a file of a level >= 1, 6 a file of level 0
Places(tsf, c) ==
    {p \in 1..6 :
       \/ p = 1 /\ c \in SeqRange(tsf.mut)
       \/ p = 2 /\ c \in SeqRange(tsf.delta_mut)
       \/ p = 3 /\ \E i \in 1..Len(tsf.delta_immut) :
                     ~tsf.delta_immut[i].flushed /\ c \in SeqRange(tsf.delta_immut[i].cells)
       \/ p = 4 /\ \E i \in 1..Len(tsf.immut) :
                     ~tsf.immut[i].flushed /\ c \in SeqRange(tsf.immut[i].cells)
       \/ p = 5 /\ \E f \in tsf.files : f.level >= 1 /\ c \in f.cells /\ ~Tombstoned(tombstones, f, c)
       \/ p = 6 /\ \E f \in tsf.files : f.level = 0 /\ c \in f.cells /\ ~Tombstoned(tombstones, f, c)}

\* every cell a ts-family holds anywhere, flushed caches included
EveryCell(tsf) ==
    SeqRange(tsf.mut) \cup SeqRange(tsf.delta_mut)
    \cup UNION {SeqRange(tsf.immut[i].cells) : i \in 1..Len(tsf.immut)}
    \cup UNION {SeqRange(tsf.delta_immut[i].cells) : i \in 1..Len(tsf.delta_immut)}
    \cup UNION {f.cells : f \in tsf.files}

\* the field ids of the written series, and the ranges asked for
ReadFieldIds == {unite_id(FieldColumn, sid) : sid \in WrittenSids}
ReadRanges == {FullRange, TimeRange(1, 1), TimeRange(2, 3)}

\* C30: read_point returns the cells of the field inside the range by place,
\* in the order mut, delta_mut, un-flushed delta_immut, un-flushed immut,
\* levels >= 1, level 0; every such cell once, and nothing from a flushed
\* cache.
C30_ReadPointOrder ==
    \A db \in DOMAIN version_set, fid \in ReadFieldIds, r \in ReadRanges :
      LET tsf == version_set[db]
          data == read_point(version_set, tombstones, db, r, fid)
          Place(c) == SetMin(Places(tsf, c))
      IN /\ \A i \in 1..Len(data) : Places(tsf, data[i]) # {}
         /\ \A i, j \in 1..Len(data) : i < j => Place(data[i]) <= Place(data[j])
         /\ \A c \in EveryCell(tsf) :
              Cardinality({i \in 1..Len(data) : data[i] = c})
                = IF c.fid = fid /\ InRange(r, c.ts) /\ Places(tsf, c) # {} THEN 1 ELSE 0

\* the reader's first read_point returned a cell of a level-1 file followed by
\* an older cell of a delta file, while a flushed cache still held them
C30_Witness ==
    /\ reader.pc = "reading"
    /\ 1 \in DOMAIN reader.ans
    /\ LET data == reader.ans[1][FieldColumn]
           tsf == version_set[reader.req.db]
       IN /\ Len(data) = 2
          /\ Places(tsf, data[1]) = {5}
          /\ Places(tsf, data[2]) = {6}
          /\ data[2].ts < data[1].ts
          /\ \E i \in 1..Len(tsf.immut) : tsf.immut[i].flushed

\* ========================================================================
\* Properties of the later claims on the schema, the background jobs, the
\* locks and the frame of write, delete_series and insert_cache
\* ========================================================================

\* C37: every index stored in the name -> index map is a slot of the columns
\* vector, so column(name) reads inside the vector.
C37_IndexInBounds ==
    \A n \in DOMAIN columns_index :
      columns_index[n] >= 0 /\ columns_index[n] < Len(columns)

\* drop_column has removed a column while two columns share a name, and the
\* last slot of the shortened vector is mapped
C37_Witness ==
    /\ last_op.op = "drop_column" /\ last_op.found
    /\ Cardinality(DOMAIN columns_index) < Len(columns)
    /\ \E n \in DOMAIN columns_index : columns_index[n] = Len(columns) - 1

\* the series of the written keys that the delete_series call does not list
OtherSids == WrittenSids \ SeqRange(deleter.req.sids)

\* C38: when delete_series has returned Ok, every cell of a series it does not
\* list that the store held at the call is still returned by read_point.
C38_DeleteLeavesOtherSeries ==
    deleter.pc = "done" =>
      \A sid \in OtherSids :
        CellsAtCall(sid) \subseteq
          SeqRange(read_point(version_set, tombstones, deleter.req.db, FullRange,
                              unite_id(FieldColumn, sid)))

\* C36: a write that fails in build_mem_points on InvalidModel or IndexErr
\* leaves the series index as it was before the write.
C36_FailedBuildLeavesIndex ==
    [][ \A w \in Writers :
          (wpc[w] = "idle" /\ wpc'[w] = "failed" /\ wres'[w] \in {"InvalidModel", "IndexErr"})
            => index' = index ]_vars

\* C40: a turn of the WAL job whose caller has dropped its receiver leaves the
\* job running with the later tasks still queued and no reply touched; a turn
\* for a waiting caller sets that caller's reply and no other, and an Ok reply
\* carries the sequence of the caller's own entry.
C40_WalJobSurvivesDroppedCaller ==
    [][ WalJobWrite =>
          LET w == Head(wal_chan)
          IN /\ wal_alive'
             /\ wal_chan' = Tail(wal_chan)
             /\ \A u \in Writers \ {w} : wal_reply'[u] = wal_reply[u]
             /\ wpc[w] # "waiting" => wal_reply'[w] = wal_reply[w]
             /\ wpc[w] = "waiting" =>
                  /\ wal_reply'[w].st \in {"ok", "err"}
                  /\ wal_reply'[w].st = "ok" =>
                       /\ wal_log' # wal_log
                       /\ wal_log'[Len(wal_log')] = [seq |-> wal_reply'[w].seq, w |-> w] ]_vars

\* a caller went away, the WAL job appended its entry all the same, and a
\* caller queued behind it got its reply and finished its write
C40_Witness ==
    /\ wal_alive
    /\ \E w, u \in Writers :
         /\ wpc[w] = "cancelled"
         /\ wpc[u] = "done"
         /\ \E i \in 1..Len(wal_log) : wal_log[i].w = w /\ wal_log[i].seq < wseq[u]

\* ========================================================================
\* insert_cache called for several databases
\* ========================================================================

\* ---------------------------------------------------------------- bounds
\* calls of insert_cache explored
MaxInserts == 3

\* the databases of the calls
InsertDbNames == {"db1", "db2"}

\* the points of a call: a point of series 1 and one of series 2 at the given
\* timestamp
InsertPoints(ts) ==
    [i \in 1..2 |-> [sid |-> i, fid |-> unite_id(FieldColumn, i), ts |-> ts, val |-> 0]]

\* calls of insert_cache made so far
InsertsMade == IF call.fn = "insert_cache" THEN call.n ELSE 0

\* insert_cache(db, seq, points), called with the next sequence; the write lock
\* on the version set is held from the lookup to the end of put_points; a
\* flush request sent after the flush task has gone is lost
InsertCache(dbs) ==
    /\ engine = "running"
    /\ handle = "open"
    /\ vs_readers = {}
    /\ call.fn \in {"none", "insert_cache"}
    /\ InsertsMade < MaxInserts
    /\ \E db \in dbs, ts \in 1..2 :
         LET seq == InsertsMade + 1
             vs == insert_cache(version_set, db, seq, InsertPoints(ts))
         IN /\ version_set' = vs
            /\ flush_chan' = IF flush_alive
                               THEN flush_chan \o FlushReqs(db, TsFamilyFor(version_set, db), vs[db])
                               ELSE flush_chan
            /\ call' = [fn |-> "insert_cache", db |-> db, n |-> seq]
            /\ ret' = <<>>
    /\ UNCHANGED <<index, engine_vars, writer_vars, wal_vars, schema_vars, rd_vars, job_vars>>

\* callers that write to several databases
InsertCacheCall == InsertCache(InsertDbNames)

NextFamilies == InsertCacheCall

SpecFamilies == Init /\ [][NextFamilies]_vars

\* C39: a call of insert_cache keeps every ts-family that exists with its
\* cells, adds at most the one of the database it names, and leaves the
\* ts-families of different databases with different ts-family ids.
C39_OneFamilyPerDatabase ==
    [][ /\ \A db \in DOMAIN version_set :
             /\ db \in DOMAIN version_set'
             /\ version_set'[db].tf_id = version_set[db].tf_id
             /\ AllMemCells(version_set[db]) \subseteq AllMemCells(version_set'[db])
        /\ Cardinality(DOMAIN version_set') <= Cardinality(DOMAIN version_set) + 1
        /\ \A d1, d2 \in DOMAIN version_set' :
             d1 # d2 => version_set'[d1].tf_id # version_set'[d2].tf_id ]_vars

\* ========================================================================
\* The flush, compaction and summary tasks, and shutdown
\* ========================================================================

\* a VersionEdit in a SummaryTask: the file a flush made of a frozen cache, or
\* the file a compaction made of its input files
Edit(kind, db, delta, idx, cells, inputs) ==
    [kind |-> kind, db |-> db, delta |-> delta, idx |-> idx, cells |-> cells,
     inputs |-> inputs]

\* the cells a merge keeps: per field and timestamp the latest write
Merged(cells) ==
    {c \in cells : \A d \in cells : (d.fid = c.fid /\ d.ts = c.ts) => d.seq <= c.seq}

\* the id the next file of a file set gets
NextFileId(files) == IF files = {} THEN 1 ELSE SetMax({f.id : f \in files}) + 1

\* Summary::apply_version_edit on the ts-family of the edit: a flush edit adds
\* its file (level 0 for a delta cache, else level 1) and marks the cache
\* flushed; a compaction edit removes its inputs and adds its output on level
\* 1; the ts-family gets a new superversion
apply_version_edit(tsf, e) ==
    LET file == ColumnFile(NextFileId(tsf.files), IF e.delta THEN 0 ELSE 1, e.cells)
        kept == {f \in tsf.files : f.id \notin e.inputs}
        files == IF e.cells = {} THEN kept ELSE kept \cup {file}
    IN IF e.kind = "compact"
         THEN [tsf EXCEPT !.files = files, !.sv = @ + 1]
         ELSE IF e.delta
           THEN [tsf EXCEPT !.delta_immut[e.idx].flushed = TRUE, !.files = files, !.sv = @ + 1]
           ELSE [tsf EXCEPT !.immut[e.idx].flushed = TRUE, !.files = files, !.sv = @ + 1]

\* tsf.pick_compaction(): a delta file, or two files, make a request that
\* names every file of the version; otherwise None (the empty set)
pick_compaction(tsf) ==
    IF (\E f \in tsf.files : f.level = 0) \/ Cardinality(tsf.files) >= 2
      THEN tsf.files
      ELSE {}

\* insert_cache called by the callers of one database
InsertCacheOne == InsertCache(DbNames)

\* run_flush_memtable_job returned Ok: its version edit went to the summary
\* channel and the ts-family to the compaction channel
FlushSend ==
    /\ fjob # <<>>
    /\ flush_alive
    /\ LET job == fjob[1]
       IN /\ summary_chan' = Append(summary_chan,
                                    Edit("flush", job.db, job.delta, job.idx, job.cells, {}))
          /\ compact_chan' = Append(compact_chan, job.db)
    /\ fjob' = <<>>
    /\ UNCHANGED <<handle, flush_alive, compact_alive, cjob, summary_alive, sjob,
                   vs_readers, job_log>>
    /\ UNCHANGED <<kv_vars, tombstones, reader, deleter, del_call, schema_vars, fn_vars>>

\* run_flush_memtable_job returned Err: `.unwrap()` panics inside the spawned
\* future, the flush task is gone with its receiver and its senders
FlushFail ==
    /\ fjob # <<>>
    /\ flush_alive
    /\ flush_alive' = FALSE
    /\ fjob' = <<>>
    /\ job_log' = Append(job_log, "flush")
    /\ UNCHANGED <<handle, compact_chan, compact_alive, cjob, summary_chan,
                   summary_alive, sjob, vs_readers>>
    /\ UNCHANGED <<kv_vars, tombstones, reader, deleter, del_call, schema_vars, fn_vars>>

\* run_compact_job: a trigger is received; version_set.read() is taken in the
\* condition of the `if let`, so the guard lives to the end of its body; with
\* no ts-family or nothing picked the turn is over
CompactStart ==
    /\ compact_alive
    /\ cjob = <<>>
    /\ compact_chan # <<>>
    /\ LET db == Head(compact_chan)
           inputs == IF db \in DOMAIN version_set
                       THEN pick_compaction(version_set[db])
                       ELSE {}
       IN IF inputs = {}
            THEN UNCHANGED <<cjob, vs_readers>>
            ELSE /\ cjob' = <<[db |-> db, inputs |-> inputs]>>
                 /\ vs_readers' = vs_readers \cup {"compact"}
    /\ compact_chan' = Tail(compact_chan)
    /\ UNCHANGED <<handle, flush_alive, compact_alive, summary_chan, summary_alive,
                   sjob, job_log>>
    /\ UNCHANGED <<kv_vars, rd_vars, schema_vars, fn_vars>>

\* the ways run_compaction_job returns
CompactOutcomes == {"Edit", "None", "Err"}

\* CompactFinish that stops the task on an error
CompactFinish_stops_on_error ==
    /\ cjob # <<>>
    /\ \E out \in CompactOutcomes :
         /\ summary_chan' =
              IF out = "Edit"
                THEN Append(summary_chan,
                            Edit("compact", cjob[1].db, FALSE, 0,
                                 Merged(UNION {f.cells : f \in cjob[1].inputs}),
                                 {f.id : f \in cjob[1].inputs}))
                ELSE summary_chan
         /\ job_log' = IF out = "Err" THEN Append(job_log, "compact") ELSE job_log
         /\ compact_alive' = (out # "Err")
    /\ cjob' = <<>>
    /\ vs_readers' = vs_readers \ {"compact"}
    /\ UNCHANGED <<handle, flush_alive, compact_chan, summary_alive, sjob>>
    /\ UNCHANGED <<kv_vars, rd_vars, schema_vars, fn_vars>>

\* run_compact_job: run_compaction_job returns; Ok(Some(edit)) sends the edit
\* to the summary channel, Ok(None) and Err are logged; the read guard drops
\* at the end of the `if let`
CompactFinish ==
    /\ cjob # <<>>
    /\ \E out \in CompactOutcomes :
         /\ summary_chan' =
              IF out = "Edit"
                THEN Append(summary_chan,
                            Edit("compact", cjob[1].db, FALSE, 0,
                                 Merged(UNION {f.cells : f \in cjob[1].inputs}),
                                 {f.id : f \in cjob[1].inputs}))
                ELSE summary_chan
         /\ job_log' = IF out = "Err" THEN Append(job_log, "compact") ELSE job_log
    /\ cjob' = <<>>
    /\ vs_readers' = vs_readers \ {"compact"}
    /\ UNCHANGED <<handle, flush_alive, compact_chan, compact_alive, summary_alive, sjob>>
    /\ UNCHANGED <<kv_vars, rd_vars, schema_vars, fn_vars>>

\* SummaryRecv that takes the newest task of the channel
SummaryRecv_takes_newest ==
    /\ summary_alive
    /\ sjob = <<>>
    /\ summary_chan # <<>>
    /\ sjob' = <<summary_chan[Len(summary_chan)]>>
    /\ summary_chan' = SubSeq(summary_chan, 1, Len(summary_chan) - 1)
    /\ UNCHANGED <<handle, flush_alive, compact_chan, compact_alive, cjob,
                   summary_alive, vs_readers, job_log>>
    /\ UNCHANGED <<kv_vars, rd_vars, schema_vars, fn_vars>>

\* run_summary_job: a SummaryTask is received and handed to
\* summary_processor.batch
SummaryRecv ==
    /\ summary_alive
    /\ sjob = <<>>
    /\ summary_chan # <<>>
    /\ sjob' = <<Head(summary_chan)>>
    /\ summary_chan' = Tail(summary_chan)
    /\ UNCHANGED <<handle, flush_alive, compact_chan, compact_alive, cjob,
                   summary_alive, vs_readers, job_log>>
    /\ UNCHANGED <<kv_vars, rd_vars, schema_vars, fn_vars>>

\* run_summary_job: summary_processor.apply().await is over, the version of
\* the ts-family is swapped
SummaryApply ==
    /\ sjob # <<>>
    /\ vs_readers = {}
    /\ version_set' = [version_set EXCEPT ![sjob[1].db] = apply_version_edit(@, sjob[1])]
    /\ sjob' = <<>>
    /\ UNCHANGED <<handle, flush_alive, compact_chan, compact_alive, cjob,
                   summary_chan, summary_alive, vs_readers, job_log>>
    /\ UNCHANGED <<index, flush_chan, engine_vars, writer_vars, wal_vars>>
    /\ UNCHANGED <<rd_vars, schema_vars, fn_vars>>

\* the TsKv is dropped, and with it its four senders
Shutdown ==
    /\ handle = "open"
    /\ handle' = "dropped"
    /\ UNCHANGED <<flush_alive, compact_chan, compact_alive, cjob, summary_chan,
                   summary_alive, sjob, vs_readers, job_log>>
    /\ UNCHANGED <<kv_vars, rd_vars, schema_vars, fn_vars>>

\* run_wal_job: recv() returns None, the only sender was the one of the TsKv
WalJobEnd ==
    /\ handle = "dropped"
    /\ wal_alive
    /\ wal_chan = <<>>
    /\ wal_alive' = FALSE
    /\ UNCHANGED <<wal_chan, wal_reply, wal_log, wal_seq, writer_vars, store_vars,
                   engine_vars, schema_vars, rd_vars, fn_vars, job_vars>>

\* run_flush_job: recv() returns None; the task drops its summary and
\* compaction senders
FlushJobEnd ==
    /\ handle = "dropped"
    /\ flush_alive
    /\ fjob = <<>>
    /\ flush_chan = <<>>
    /\ flush_alive' = FALSE
    /\ UNCHANGED <<handle, compact_chan, compact_alive, cjob, summary_chan,
                   summary_alive, sjob, vs_readers, job_log>>
    /\ UNCHANGED <<kv_vars, rd_vars, schema_vars, fn_vars>>

\* run_compact_job: recv() returns None once the TsKv and the flush task have
\* dropped their senders
CompactJobEnd ==
    /\ handle = "dropped"
    /\ ~flush_alive
    /\ compact_alive
    /\ cjob = <<>>
    /\ compact_chan = <<>>
    /\ compact_alive' = FALSE
    /\ UNCHANGED <<handle, flush_alive, compact_chan, cjob, summary_chan,
                   summary_alive, sjob, vs_readers, job_log>>
    /\ UNCHANGED <<kv_vars, rd_vars, schema_vars, fn_vars>>

\* run_summary_job: recv() returns None once the TsKv, the flush task and the
\* compaction task have dropped their senders
SummaryJobEnd ==
    /\ handle = "dropped"
    /\ ~flush_alive
    /\ ~compact_alive
    /\ summary_alive
    /\ sjob = <<>>
    /\ summary_chan = <<>>
    /\ summary_alive' = FALSE
    /\ UNCHANGED <<handle, flush_alive, compact_chan, compact_alive, cjob,
                   summary_chan, sjob, vs_readers, job_log>>
    /\ UNCHANGED <<kv_vars, rd_vars, schema_vars, fn_vars>>

\* callers of insert_cache, the three tasks behind it, and shutdown
NextJobs ==
    \/ InsertCacheOne
    \/ FlushStart
    \/ FlushSend
    \/ FlushFail
    \/ CompactStart
    \/ CompactFinish
    \/ SummaryRecv
    \/ SummaryApply
    \/ Shutdown
    \/ WalJobEnd
    \/ FlushJobEnd
    \/ CompactJobEnd
    \/ SummaryJobEnd

SpecJobs == Init /\ [][NextJobs]_vars

JobsTypeOK ==
    /\ handle \in {"open", "dropped"}
    /\ Len(cjob) <= 1 /\ Len(sjob) <= 1 /\ Len(fjob) <= 1
    /\ vs_readers \subseteq {"compact"}
    /\ Len(job_log) <= 2 * MaxInserts

\* ========================================================================
\* Properties of the background tasks
\* ========================================================================

\* the step logs an error of the given task
Logs(task) == Len(job_log') > Len(job_log) /\ job_log'[Len(job_log')] = task

\* C31: when a flush job fails, the version set stays as it was and the flush
\* task goes on running its loop, so that later flush requests are consumed.
C31_FlushTaskSurvivesError ==
    [][ Logs("flush") => (version_set' = version_set /\ flush_alive') ]_vars

\* C32: a failed compaction sends nothing to the summary channel, changes no
\* version, is not queued again, and leaves the compaction task running with
\* the triggers that were queued.
C32_FailedCompactionIsDropped ==
    [][ Logs("compact") =>
          /\ summary_chan' = summary_chan
          /\ version_set' = version_set
          /\ compact_chan' = compact_chan
          /\ cjob' = <<>>
          /\ compact_alive' ]_vars

\* a compaction failed, and the task is running the compaction of a later
\* trigger
C32_Witness ==
    /\ \E i \in 1..Len(job_log) : job_log[i] = "compact"
    /\ compact_alive
    /\ cjob # <<>>

\* every cell of a cache marked flushed is in a file of the ts-family, or a
\* later write of its field and timestamp is
EditsReflected(vs) ==
    \A db \in DOMAIN vs :
      \A m \in SeqRange(vs[db].immut) \cup SeqRange(vs[db].delta_immut) :
        m.flushed =>
          \A c \in SeqRange(m.cells) :
            \E f \in vs[db].files : \E d \in f.cells :
              d.fid = c.fid /\ d.ts = c.ts /\ d.seq >= c.seq

\* C33: the summary task takes a task only when it has none in hand, and then
\* the oldest of its channel; the files of a version change only when the task
\* in hand is applied, as that task says; and the version set of every state
\* holds what the applied flush edits added.
C33_EditsAppliedOneByOne ==
    [][ /\ (sjob' # sjob /\ sjob' # <<>>) =>
              /\ sjob = <<>>
              /\ sjob'[1] = Head(summary_chan)
              /\ summary_chan' = Tail(summary_chan)
        /\ (\E db \in DOMAIN version_set : version_set'[db].files # version_set[db].files) =>
              /\ sjob # <<>> /\ sjob' = <<>>
              /\ version_set' =
                   [version_set EXCEPT ![sjob[1].db] = apply_version_edit(@, sjob[1])]
        /\ EditsReflected(version_set') ]_vars

\* the edit of a compaction is in hand while another edit waits in the
\* channel, and an earlier flush edit has been applied
C33_Witness ==
    /\ sjob # <<>> /\ sjob[1].kind = "compact"
    /\ summary_chan # <<>>
    /\ \E db \in DOMAIN version_set :
         \E m \in SeqRange(version_set[db].immut) : m.flushed

\* C34: once the engine handle is dropped, a task that has ended has left
\* nothing unprocessed in its channel.
C34_TasksDrainThenEnd ==
    handle = "dropped" =>
      /\ ~wal_alive => wal_chan = <<>>
      /\ ~flush_alive => (flush_chan = <<>> /\ fjob = <<>>)
      /\ ~compact_alive => (compact_chan = <<>> /\ cjob = <<>>)
      /\ ~summary_alive => (summary_chan = <<>> /\ sjob = <<>>)

\* C35: nobody holds the read lock of the version set while a compaction job
\* runs, so insert_cache can take the write lock.
C35_NoReadLockDuringCompaction ==
    cjob # <<>> => vs_readers = {}

====
